---- MODULE Spec2Model ----
(***************************************************************************)
(* Ad lifecycle and monetization engine of src/server.py: the ads and      *)
(* payments collections, the payment gateway webhook, order creation,      *)
(* publication, moderation and topup.                                      *)
(*                                                                         *)
(* Time is counted in whole seconds since the epoch.  A datetime, its      *)
(* isoformat() string and its timestamp() are the same integer here;       *)
(* None is the integer -1, which no timestamp equals.                      *)
(***************************************************************************)
EXTENDS Integers, Sequences, FiniteSets, TLC

\* ------------------------------------------------------------- bounds ----
StartTime == 100000
MaxTicks == 2
TickSeconds == 1200
MaxTime == StartTime + MaxTicks * TickSeconds
\* a second clock step, not a whole number of minutes, and the horizon of
\* the topup specification (longer than the 60-minute cooldown)
TickOdd == 1230
TopupTicks == 3
TopupMaxTime == StartTime + TopupTicks * TickOdd

\* "ad1" is the id create_ad generates; "ad2" is an id that no create_ad
\* generates, so a request naming it addresses an unknown ad.
AdIds == {"ad1", "ad2"}
UnknownAd == "ad2"
OrderCodes == {1}
UnknownCode == 99
TxnIds == {"t1", "t2"}
Users == {"u1", "u2", "adm"}
Categories == {"escorts", "cars"}
Handlers == {"h1", "h2"}
Requesters == {"r1", "r2"}
\* the ids create_review generates, and a seller id of no user
ReviewIds == {"rv1", "rv2", "rv3"}
UnknownUser == "ghost"
Prices == {10, 20}
MaxViews == 2

\* ------------------------------------------------- program constants ----
None == -1
BoostSeconds == 86400
PromoteSeconds == 604800
CooldownReferral == 40
CooldownDefault == 60
\* a key the request body does not have ("if field in body")
NoField == -2
\* limit: int = 20
PageLimit == 20

PaymentKinds == {"post_ad", "boost", "promote"}

PAYMENT_AMOUNTS(kind) ==
    CASE kind = "post_ad" -> 1140
      [] kind = "boost" -> 700
      [] kind = "promote" -> 2999

\* the status list of admin_update_ad_status with one more value let in
AdStatuses_Open == {"pending", "active", "rejected", "expired", "bogus"}

AdStatuses == {"pending", "active", "rejected", "expired"}

\* users collection: role and referral_count are fixed in this model
Role(u) == IF u = "adm" THEN "admin" ELSE "user"
ReferralCount(u) == IF u = "u2" THEN 1 ELSE 0

\* ---------------------------------------------------------- variables ----
VARIABLES
    now,        \* the wall clock, datetime.now(timezone.utc)
    ads,        \* db.ads: ad_id -> ad document (domain = stored ads)
    payments,   \* db.payments: order_code -> payment document
    resp,       \* the response of the last request handled
    wh,         \* the webhook handlers in flight (concurrent deliveries)
    tp,         \* the topup requests in flight (concurrent requests)
    listing,    \* the last GET /ads query and the ids it returned, in order
    reviews,    \* db.reviews: review_id -> review document
    users,      \* db.users: user_id -> the reputation fields of the document
    cr,         \* the create-review requests in flight
    vw,         \* the GET /ads/{ad_id} requests in flight
    mail,       \* the e-mail tasks the last request created
    favorites,  \* db.favorites: the number of rows of each (user, ad)
    fq,         \* the add-favorite and remove-favorite requests in flight
    am          \* the administrator's status updates in flight

vars ==
    <<now, ads, payments, resp, wh, tp, listing, reviews, users, cr, vw, mail,
      favorites, fq, am>>

\* the variables the payment and lifecycle handlers never touch
others == <<tp, listing, reviews, users, cr, vw, favorites, fq, am>>

\* ------------------------------------------------------ webhook events ----
\* EventData.MerchantTrns as it arrives: the key may be absent, null,
\* a string that is not JSON, JSON that is not an object, or a JSON object
\* whose ad_id / payment_type keys may be missing ("none").
TrnsObjects ==
    [form : {"object"}, ad_id : AdIds \cup {"none"},
     payment_type : PaymentKinds \cup {"none"}]

TrnsMalformed ==
    [form : {"absent", "null", "garbage", "nonobject"},
     ad_id : {"none"}, payment_type : {"none"}]

MerchantTrnsValues == TrnsObjects \cup TrnsMalformed

Events ==
    [OrderCode : OrderCodes \cup {UnknownCode}, StatusId : {"F", "E"},
     TransactionId : TxnIds, MerchantTrns : MerchantTrnsValues]

NoEvent ==
    [OrderCode |-> 0, StatusId |-> "none", TransactionId |-> "none",
     MerchantTrns |-> [form |-> "absent", ad_id |-> "none",
                       payment_type |-> "none"]]

\* json.loads(merchant_trns) followed by trns_data.get(...):
\*   absent    -> default "{}" -> {}            -> ad_id = payment_type = None
\*   garbage   -> JSONDecodeError, caught -> {} -> ad_id = payment_type = None
\*   null      -> json.loads(None) raises TypeError, not caught
\*   nonobject -> parses to a list/number, .get raises AttributeError
\*   object    -> the dict's values (None for a missing key)
ParseTrns(mt) ==
    CASE mt.form = "object" ->
            [raised |-> FALSE, ad_id |-> mt.ad_id,
             payment_type |-> mt.payment_type]
      [] mt.form \in {"absent", "garbage"} ->
            [raised |-> FALSE, ad_id |-> "none", payment_type |-> "none"]
      [] mt.form \in {"null", "nonobject"} ->
            [raised |-> TRUE, ad_id |-> "none", payment_type |-> "none"]

\* json.dumps({"ad_id":..., "payment_type":..., "user_id":...}) of
\* create_payment_order, as the gateway echoes it back
EchoTrns(ad_id, kind) ==
    [form |-> "object", ad_id |-> ad_id, payment_type |-> kind]

\* ------------------------------------------------------ store updates ----
\* db.payments.update_one({"order_code": c}, {"$set": {...}})
UpdatePayment(pays, c, txn, t) ==
    IF c \in DOMAIN pays
    THEN [pays EXCEPT ![c].status = "completed",
                      ![c].transaction_id = txn,
                      ![c].completed_at = t]
    ELSE pays

\* ApplyEffect with the boost branch given the promotion's timedelta
ApplyEffect_BoostWeek(as, ad_id, ptype, t) ==
    IF ad_id \notin DOMAIN as THEN as
    ELSE CASE ptype = "post_ad" ->
                [as EXCEPT ![ad_id].is_paid = TRUE,
                           ![ad_id].status = "pending"]
           [] ptype = "boost" ->
                [as EXCEPT ![ad_id].is_boosted = TRUE,
                           ![ad_id].boost_expires_at = t + PromoteSeconds]
           [] ptype = "promote" ->
                [as EXCEPT ![ad_id].is_promoted = TRUE,
                           ![ad_id].promote_expires_at = t + PromoteSeconds]
           [] OTHER -> as

\* the db.ads.update_one of the payment_type branch
ApplyEffect(as, ad_id, ptype, t) ==
    IF ad_id \notin DOMAIN as THEN as
    ELSE CASE ptype = "post_ad" ->
                [as EXCEPT ![ad_id].is_paid = TRUE,
                           ![ad_id].status = "pending"]
           [] ptype = "boost" ->
                [as EXCEPT ![ad_id].is_boosted = TRUE,
                           ![ad_id].boost_expires_at = t + BoostSeconds]
           [] ptype = "promote" ->
                [as EXCEPT ![ad_id].is_promoted = TRUE,
                           ![ad_id].promote_expires_at = t + PromoteSeconds]
           [] OTHER -> as

\* NewAd without the escorts test: every ad starts active
NewAd_NoModeration(user, category_id, t) ==
    [user_id |-> user,
     category_id |-> category_id,
     status |-> "active",
     is_boosted |-> FALSE,
     boost_expires_at |-> None,
     is_promoted |-> FALSE,
     promote_expires_at |-> None,
     price |-> None,
     views |-> 0,
     favorites_count |-> 0,
     is_paid |-> TRUE,
     auto_topup |-> TRUE,
     topup_rank |-> t,
     last_topup |-> t,
     created_at |-> t,
     updated_at |-> t]

\* ad_doc of create_ad
NewAd(user, category_id, t) ==
    LET initial_status == IF category_id = "escorts" THEN "pending"
                          ELSE "active"
    IN [user_id |-> user,
        category_id |-> category_id,
        status |-> initial_status,
        is_boosted |-> FALSE,
        boost_expires_at |-> None,
        is_promoted |-> FALSE,
        promote_expires_at |-> None,
        price |-> None,
        views |-> 0,
        \* no key in ad_doc; every reader uses get("favorites_count", 0)
        \* and $inc starts an absent field from 0
        favorites_count |-> 0,
        is_paid |-> TRUE,
        auto_topup |-> TRUE,
        topup_rank |-> IF initial_status = "active" THEN t ELSE 0,
        last_topup |-> IF initial_status = "active" THEN t ELSE None,
        created_at |-> t,
        updated_at |-> t]

\* NewPayment storing the amount in RON, as the response reports it
NewPayment_DisplayAmount(order_code, ad_id, user, kind, t) ==
    [order_code |-> order_code,
     ad_id |-> ad_id,
     user_id |-> user,
     payment_type |-> kind,
     amount |-> PAYMENT_AMOUNTS(kind) \div 100,
     status |-> "pending",
     transaction_id |-> "none",
     completed_at |-> None,
     created_at |-> t]

\* payment_doc of create_payment_order
NewPayment(order_code, ad_id, user, kind, t) ==
    [order_code |-> order_code,
     ad_id |-> ad_id,
     user_id |-> user,
     payment_type |-> kind,
     amount |-> PAYMENT_AMOUNTS(kind),
     status |-> "pending",
     transaction_id |-> "none",
     completed_at |-> None,
     created_at |-> t]

\* what the caller sees: the HTTP status and, for the topup rate limit,
\* the remaining minutes of the detail message
Response(op, code, detail) == [op |-> op, code |-> code, detail |-> detail]

\* A delivery of the gateway and the handler that serves it: the handler's
\* position, the event it was given, what its find_one returned, its HTTP
\* status, and whether the gateway had already been answered for the very
\* same event when this delivery started (a replay).
IdleHandler ==
    [pc |-> "idle", ev |-> NoEvent, found |-> FALSE, code |-> 0,
     replay |-> FALSE]

\* A topup request in flight: its position, the caller, the ad named, the
\* document its find_one returned (NoAd when none) and the now it sampled.
NoAd == [user_id |-> "none", status |-> "none", last_topup |-> None]

IdleTopup ==
    [pc |-> "idle", user |-> "none", ad_id |-> "none", ad |-> NoAd,
     t |-> None, code |-> 0]

\* before any GET /ads
NoListing == [category_id |-> "none", sort |-> "none", ids |-> <<>>]

\* user_doc of register: it has no avg_rating and no total_reviews key
NewUser == [avg_rating |-> None, total_reviews |-> None]

\* A status update of the administrator in flight: its position, the ad
\* named, the status asked for, the owner of the document its find_one
\* returned ("none" when there is none) and the e-mail it has issued.
IdleModeration ==
    [pc |-> "idle", ad_id |-> "none", new_status |-> "none",
     owner |-> "none", issued |-> "none"]

\* db.favorites before any favorite: no row for any user and ad
NoFavorites == [ua \in Users \X AdIds |-> 0]

\* A favorite request in flight: its position, the caller and the ad named.
IdleFavorite == [pc |-> "idle", user |-> "none", ad_id |-> "none"]

\* result of update_seller_rating when the pipeline yields no document
NoResult == [avg_rating |-> None, total_reviews |-> 0]

\* A create-review request in flight: its position, the reviewer, the
\* ReviewCreate data, the id of the review it inserted, the document its
\* aggregate returned and its HTTP status.
IdleCreate ==
    [pc |-> "idle", user |-> "none", seller_id |-> "none", ad_id |-> "none",
     rating |-> 0, review_id |-> "none", result |-> NoResult, code |-> 0]

\* A client calling GET /ads/{ad_id}: the position of its request, the ad
\* named, the views its find_one returned (old_views), the number of its
\* calls that have completed and the milestone e-mails they dispatched.
IdleView ==
    [pc |-> "idle", ad_id |-> "none", owner |-> "none", old_views |-> 0,
     done |-> 0, sent |-> 0]

\* ------------------------------------------------------ notifications ----
\* the mailbox of the admin_new_ad notification
AdminMailbox == "contact@x67digital.com"

VIEW_MILESTONES == {100, 500, 1000, 5000, 10000}

\* asyncio.create_task(send_email_notification(to, template, data)): the
\* task starts pending; the handler does not await it
EmailTask(to, template) ==
    [to |-> to, template |-> template, status |-> "pending"]

\* the e-mail of admin_update_ad_status: to the owner of a stored ad, for
\* the outcomes active and rejected only
StatusMail(ad_id, new_status) ==
    IF ad_id \in DOMAIN ads /\ new_status \in {"active", "rejected"}
    THEN {EmailTask(ads[ad_id].user_id,
                    IF new_status = "active" THEN "ad_approved"
                    ELSE "ad_rejected")}
    ELSE {}

\* the e-mail of payment_webhook: "if payment and ad_id", to the user of
\* the payment document
PaymentMail(found, e) ==
    IF found /\ ParseTrns(e.MerchantTrns).ad_id # "none"
    THEN {EmailTask(payments[e.OrderCode].user_id, "payment_success")}
    ELSE {}

\* the e-mail of get_ad: old_views < milestone <= new_views
ViewsMail(owner, old_views) ==
    IF \E milestone \in VIEW_MILESTONES :
          old_views < milestone /\ milestone <= old_views + 1
    THEN {EmailTask(owner, "views_milestone")}
    ELSE {}

\* --------------------------------------------------------------- Init ----
Init ==
    /\ now = StartTime
    /\ ads = <<>>
    /\ payments = <<>>
    /\ resp = Response("none", 0, 0)
    /\ wh = [h \in Handlers |-> IdleHandler]
    /\ tp = [r \in Requesters |-> IdleTopup]
    /\ listing = NoListing
    /\ reviews = <<>>
    /\ users = [u \in Users |-> NewUser]
    /\ cr = [r \in Requesters |-> IdleCreate]
    /\ vw = [r \in Requesters |-> IdleView]
    /\ mail = {}
    /\ favorites = NoFavorites
    /\ fq = [r \in Requesters |-> IdleFavorite]
    /\ am = [r \in Requesters |-> IdleModeration]

\* ------------------------------------------------------------ actions ----
\* the clock advances between requests
Tick(d) ==
    /\ now + d <= MaxTime
    /\ now' = now + d
    /\ UNCHANGED <<ads, payments, resp, wh, others, mail>>

\* the clock advances, up to a horizon of the specification's choice
TickUntil(d, limit) ==
    /\ now + d <= limit
    /\ now' = now + d
    /\ UNCHANGED <<ads, payments, resp, wh, others, mail>>

\* POST /ads
create_ad(user, category_id, ad_id) ==
    \* ad_id is a fresh uuid
    /\ ad_id \notin DOMAIN ads
    /\ ads' = ads @@ (ad_id :> NewAd(user, category_id, now))
    /\ resp' = Response("create_ad", 200, 0)
    /\ mail' = {EmailTask(AdminMailbox, "admin_new_ad")}
    /\ UNCHANGED <<now, payments, wh, others>>

\* PUT /admin/ads/{ad_id}/status
admin_update_ad_status(user, ad_id, new_status) ==
    /\ IF Role(user) # "admin"
       THEN /\ resp' = Response("admin_update_ad_status", 403, 0)
            /\ mail' = {}
            /\ UNCHANGED ads
       ELSE IF new_status \notin AdStatuses
       THEN /\ resp' = Response("admin_update_ad_status", 400, 0)
            /\ mail' = {}
            /\ UNCHANGED ads
       ELSE /\ mail' = StatusMail(ad_id, new_status)
            /\ ads' = IF ad_id \in DOMAIN ads
                      THEN [ads EXCEPT ![ad_id].status = new_status,
                                       ![ad_id].updated_at = now]
                      ELSE ads
            /\ resp' = Response("admin_update_ad_status", 200, 0)
    /\ UNCHANGED <<now, payments, wh, others>>

\* ------------------------ admin_update_ad_status, one store call a step ----
\* require_admin, the status test and ad = await db.ads.find_one(...)
am_find(r, user, ad_id, new_status) ==
    /\ am[r].pc = "idle"
    /\ IF Role(user) # "admin"
       THEN /\ resp' = Response("admin_update_ad_status", 403, 0)
            /\ mail' = {}
            /\ UNCHANGED am
       ELSE IF new_status \notin AdStatuses
       THEN /\ resp' = Response("admin_update_ad_status", 400, 0)
            /\ mail' = {}
            /\ UNCHANGED am
       ELSE /\ am' = [am EXCEPT ![r] =
                       [pc |-> "notify", ad_id |-> ad_id,
                        new_status |-> new_status,
                        owner |-> IF ad_id \in DOMAIN ads
                                  THEN ads[ad_id].user_id ELSE "none",
                        issued |-> "none"]]
            /\ UNCHANGED <<resp, mail>>
    /\ UNCHANGED <<now, ads, payments, wh, tp, listing, reviews, users, cr, vw,
                   favorites, fq>>

\* "if ad:", the owner's user document and asyncio.create_task(...) for
\* the statuses active and rejected
am_notify(r) ==
    LET template == IF am[r].owner = "none" THEN "none"
                    ELSE IF am[r].new_status = "active" THEN "ad_approved"
                    ELSE IF am[r].new_status = "rejected" THEN "ad_rejected"
                    ELSE "none"
    IN
    /\ am[r].pc = "notify"
    /\ mail' = IF template = "none" THEN {}
               ELSE {EmailTask(am[r].owner, template)}
    /\ am' = [am EXCEPT ![r].pc = "write", ![r].issued = template]
    /\ UNCHANGED <<now, ads, payments, resp, wh, tp, listing, reviews, users,
                   cr, vw, favorites, fq>>

\* await db.ads.update_one(...) and the return
am_write(r) ==
    /\ am[r].pc = "write"
    /\ ads' = IF am[r].ad_id \in DOMAIN ads
              THEN [ads EXCEPT ![am[r].ad_id].status = am[r].new_status,
                               ![am[r].ad_id].updated_at = now]
              ELSE ads
    /\ resp' = Response("admin_update_ad_status", 200, 0)
    /\ am' = [am EXCEPT ![r].pc = "idle"]
    /\ UNCHANGED <<now, payments, wh, tp, listing, reviews, users, cr, vw,
                   mail, favorites, fq>>

\* cooldown_minutes without the referral discount
CooldownMinutes_Flat(user) == CooldownDefault

\* cooldown_minutes of topup_ad
CooldownMinutes(user) ==
    IF ReferralCount(user) > 0 THEN CooldownReferral ELSE CooldownDefault

\* the cooldown test comparing whole minutes with <=
InCooldown_WholeMinutes(user, last_topup, t) ==
    /\ last_topup # None
    /\ (t - last_topup) \div 60 <= CooldownMinutes(user)

\* time_since_topup < cooldown_minutes, both sides scaled to seconds
InCooldown(user, last_topup, t) ==
    /\ last_topup # None
    /\ t - last_topup < CooldownMinutes(user) * 60

\* the remaining minutes rounded up instead of truncated
RemainingMinutes_RoundUp(user, last_topup, t) ==
    (CooldownMinutes(user) * 60 - (t - last_topup) + 59) \div 60

\* int(cooldown_minutes - time_since_topup)
RemainingMinutes(user, last_topup, t) ==
    (CooldownMinutes(user) * 60 - (t - last_topup)) \div 60

\* POST /ads/{ad_id}/topup
topup_ad(user, ad_id) ==
    /\ IF ad_id \notin DOMAIN ads
       THEN /\ resp' = Response("topup_ad", 404, 0)
            /\ UNCHANGED ads
       ELSE IF ads[ad_id].user_id # user
       THEN /\ resp' = Response("topup_ad", 403, 0)
            /\ UNCHANGED ads
       ELSE IF ads[ad_id].status # "active"
       THEN /\ resp' = Response("topup_ad", 400, 0)
            /\ UNCHANGED ads
       ELSE IF InCooldown(user, ads[ad_id].last_topup, now)
       THEN /\ resp' = Response("topup_ad", 400,
                            RemainingMinutes(user, ads[ad_id].last_topup, now))
            /\ UNCHANGED ads
       ELSE /\ ads' = [ads EXCEPT ![ad_id].last_topup = now,
                                  ![ad_id].topup_rank = now]
            /\ resp' = Response("topup_ad", 200, 0)
    /\ mail' = {}
    /\ UNCHANGED <<now, payments, wh, others>>

\* what one topup_ad request of the user, sampling now = t, leaves in the
\* store: the $set of last_topup and topup_rank when no test refuses it
ApplyTopup(as, user, ad_id, t) ==
    IF \/ ad_id \notin DOMAIN as
       \/ as[ad_id].user_id # user
       \/ as[ad_id].status # "active"
       \/ InCooldown(user, as[ad_id].last_topup, t)
    THEN as
    ELSE [as EXCEPT ![ad_id].last_topup = t, ![ad_id].topup_rank = t]

\* ------------------------------------------ topup, one store call a step ----
\* ad = await db.ads.find_one({"ad_id": ad_id}) (line 1720)
tp_find(r, user, ad_id) ==
    /\ tp[r].pc = "idle"
    /\ tp' = [tp EXCEPT ![r] =
                [pc |-> "check", user |-> user, ad_id |-> ad_id,
                 ad |-> IF ad_id \in DOMAIN ads
                        THEN [user_id |-> ads[ad_id].user_id,
                              status |-> ads[ad_id].status,
                              last_topup |-> ads[ad_id].last_topup]
                        ELSE NoAd,
                 t |-> None, code |-> 0]]
    /\ UNCHANGED <<now, ads, payments, resp, wh, listing, reviews, users,
                 cr, vw, mail,
                   favorites, fq, am>>

\* the tests on the document read and, when they pass, now =
\* datetime.now(timezone.utc) (lines 1721-1748); no await in between
tp_check(r) ==
    LET ad == tp[r].ad
        refused == CASE ad = NoAd -> 404
                     [] ad.user_id # tp[r].user -> 403
                     [] ad.status # "active" -> 400
                     [] InCooldown(tp[r].user, ad.last_topup, now) -> 400
                     [] OTHER -> 0
    IN
    /\ tp[r].pc = "check"
    /\ tp' = [tp EXCEPT ![r].pc = IF refused # 0 THEN "done" ELSE "write",
                        ![r].code = refused,
                        ![r].t = IF refused # 0 THEN None ELSE now]
    /\ UNCHANGED <<now, ads, payments, resp, wh, listing, reviews, users,
                 cr, vw, mail,
                   favorites, fq, am>>

\* await db.ads.update_one(...) with the now sampled before (1749-1755)
tp_write(r) ==
    /\ tp[r].pc = "write"
    /\ ads' = IF tp[r].ad_id \in DOMAIN ads
              THEN [ads EXCEPT ![tp[r].ad_id].last_topup = tp[r].t,
                               ![tp[r].ad_id].topup_rank = tp[r].t]
              ELSE ads
    /\ tp' = [tp EXCEPT ![r].pc = "done", ![r].code = 200]
    /\ UNCHANGED <<now, payments, resp, wh, listing, reviews, users,
                 cr, vw, mail,
                   favorites, fq, am>>

\* the JSON body of PUT /ads/{ad_id}: a price key (absent, null or a
\* number) and a status key the client may try to send along
UpdateBodies ==
    [price : {NoField, None} \cup Prices, status : {"absent"} \cup AdStatuses]

\* update_ad copying the status key of the body as well
update_ad_CopiesStatus(user, ad_id, body) ==
    /\ IF ad_id \notin DOMAIN ads
       THEN /\ resp' = Response("update_ad", 404, 0)
            /\ UNCHANGED ads
       ELSE IF ads[ad_id].user_id # user /\ Role(user) # "admin"
       THEN /\ resp' = Response("update_ad", 403, 0)
            /\ UNCHANGED ads
       ELSE /\ ads' = [ads EXCEPT
                        ![ad_id].price = IF body.price # NoField
                                         THEN body.price ELSE @,
                        ![ad_id].status = IF body.status # "absent"
                                          THEN body.status ELSE @,
                        ![ad_id].updated_at = now]
            /\ resp' = Response("update_ad", 200, 0)
    /\ mail' = {}
    /\ UNCHANGED <<now, payments, wh, others>>

\* PUT /ads/{ad_id}: only the listed content fields of the body are copied
update_ad(user, ad_id, body) ==
    /\ IF ad_id \notin DOMAIN ads
       THEN /\ resp' = Response("update_ad", 404, 0)
            /\ UNCHANGED ads
       ELSE IF ads[ad_id].user_id # user /\ Role(user) # "admin"
       THEN /\ resp' = Response("update_ad", 403, 0)
            /\ UNCHANGED ads
       ELSE /\ ads' = [ads EXCEPT
                        ![ad_id].price = IF body.price # NoField
                                         THEN body.price ELSE @,
                        ![ad_id].updated_at = now]
            /\ resp' = Response("update_ad", 200, 0)
    /\ mail' = {}
    /\ UNCHANGED <<now, payments, wh, others>>

\* delete_ad without the ownership test
delete_ad_AnyUser(user, ad_id) ==
    /\ IF ad_id \notin DOMAIN ads
       THEN /\ resp' = Response("delete_ad", 404, 0)
            /\ UNCHANGED ads
       ELSE /\ ads' = [a \in DOMAIN ads \ {ad_id} |-> ads[a]]
            /\ resp' = Response("delete_ad", 200, 0)
    /\ mail' = {}
    /\ UNCHANGED <<now, payments, wh, others>>

\* DELETE /ads/{ad_id}
delete_ad(user, ad_id) ==
    /\ IF ad_id \notin DOMAIN ads
       THEN /\ resp' = Response("delete_ad", 404, 0)
            /\ UNCHANGED ads
       ELSE IF ads[ad_id].user_id # user /\ Role(user) # "admin"
       THEN /\ resp' = Response("delete_ad", 403, 0)
            /\ UNCHANGED ads
       ELSE /\ ads' = [a \in DOMAIN ads \ {ad_id} |-> ads[a]]
            /\ resp' = Response("delete_ad", 200, 0)
    /\ mail' = {}
    /\ UNCHANGED <<now, payments, wh, others>>

\* POST /ads/{ad_id}/auto-topup
toggle_auto_topup(user, ad_id, enabled) ==
    /\ IF ad_id \notin DOMAIN ads
       THEN /\ resp' = Response("toggle_auto_topup", 404, 0)
            /\ UNCHANGED ads
       ELSE IF ads[ad_id].user_id # user
       THEN /\ resp' = Response("toggle_auto_topup", 403, 0)
            /\ UNCHANGED ads
       ELSE /\ ads' = [ads EXCEPT ![ad_id].auto_topup = enabled]
            /\ resp' = Response("toggle_auto_topup", 200, 0)
    /\ mail' = {}
    /\ UNCHANGED <<now, payments, wh, others>>

\* GET /ads/{ad_id}: the view counter is incremented in the store
get_ad(ad_id) ==
    /\ IF ad_id \notin DOMAIN ads
       THEN /\ resp' = Response("get_ad", 404, 0)
            /\ mail' = {}
            /\ UNCHANGED ads
       ELSE /\ ads' = [ads EXCEPT ![ad_id].views = @ + 1]
            /\ mail' = ViewsMail(ads[ad_id].user_id, ads[ad_id].views)
            /\ resp' = Response("get_ad", 200, 0)
    /\ UNCHANGED <<now, payments, wh, others>>

\* --------------------------------------- get_ad, one store call a step ----
\* ad = await db.ads.find_one(...); old_views = ad.get("views", 0)
gv_find(r, ad_id) ==
    /\ vw[r].pc = "idle"
    /\ IF ad_id \notin DOMAIN ads
       THEN /\ resp' = Response("get_ad", 404, 0)
            /\ mail' = {}
            /\ UNCHANGED vw
       ELSE /\ vw' = [vw EXCEPT ![r].pc = "inc", ![r].ad_id = ad_id,
                               ![r].owner = ads[ad_id].user_id,
                               ![r].old_views = ads[ad_id].views]
            /\ UNCHANGED <<resp, mail>>
    /\ UNCHANGED <<now, ads, payments, wh, tp, listing, reviews, users, cr,
                   favorites, fq, am>>

\* the increment written as the value read plus one
gv_inc_SetNewViews(r) ==
    /\ vw[r].pc = "inc"
    /\ ads' = IF vw[r].ad_id \in DOMAIN ads
              THEN [ads EXCEPT ![vw[r].ad_id].views = vw[r].old_views + 1]
              ELSE ads
    /\ vw' = [vw EXCEPT ![r].pc = "return"]
    /\ UNCHANGED <<now, payments, resp, wh, tp, listing, reviews, users, cr,
                   mail,
                   favorites, fq, am>>

\* await db.ads.update_one({"ad_id": ad_id}, {"$inc": {"views": 1}})
gv_inc(r) ==
    /\ vw[r].pc = "inc"
    /\ ads' = IF vw[r].ad_id \in DOMAIN ads
              THEN [ads EXCEPT ![vw[r].ad_id].views = @ + 1]
              ELSE ads
    /\ vw' = [vw EXCEPT ![r].pc = "return"]
    /\ UNCHANGED <<now, payments, resp, wh, tp, listing, reviews, users, cr,
                   mail,
                   favorites, fq, am>>

\* the milestone test on old_views, the enrichment and return ad
gv_return(r) ==
    /\ vw[r].pc = "return"
    /\ mail' = ViewsMail(vw[r].owner, vw[r].old_views)
    /\ resp' = Response("get_ad", 200, 0)
    /\ vw' = [vw EXCEPT ![r].pc = "idle", ![r].done = @ + 1,
                        ![r].sent = @ + Cardinality(mail')]
    /\ UNCHANGED <<now, ads, payments, wh, tp, listing, reviews, users, cr,
                   favorites, fq, am>>

\* ---------------------------------------------------------- favorites ----
\* POST /favorites/{ad_id}: ad = await db.ads.find_one(...)
fa_find_ad(r, user, ad_id) ==
    /\ fq[r].pc = "idle"
    /\ IF ad_id \notin DOMAIN ads
       THEN /\ resp' = Response("add_favorite", 404, 0)
            /\ mail' = {}
            /\ UNCHANGED fq
       ELSE /\ fq' = [fq EXCEPT ![r] = [pc |-> "existing", user |-> user,
                                       ad_id |-> ad_id]]
            /\ UNCHANGED <<resp, mail>>
    /\ UNCHANGED <<now, ads, payments, wh, tp, listing, reviews, users, cr, vw,
                   favorites, am>>

\* existing = await db.favorites.find_one(...); 400 "Already in favorites"
fa_find_existing(r) ==
    /\ fq[r].pc = "existing"
    /\ IF favorites[<<fq[r].user, fq[r].ad_id>>] > 0
       THEN /\ resp' = Response("add_favorite", 400, 0)
            /\ mail' = {}
            /\ fq' = [fq EXCEPT ![r] = IdleFavorite]
       ELSE /\ fq' = [fq EXCEPT ![r].pc = "insert"]
            /\ UNCHANGED <<resp, mail>>
    /\ UNCHANGED <<now, ads, payments, wh, tp, listing, reviews, users, cr, vw,
                   favorites, am>>

\* await db.favorites.insert_one(favorite_doc)
fa_insert(r) ==
    /\ fq[r].pc = "insert"
    /\ favorites' = [favorites EXCEPT ![<<fq[r].user, fq[r].ad_id>>] = @ + 1]
    /\ fq' = [fq EXCEPT ![r].pc = "inc"]
    /\ UNCHANGED <<now, ads, payments, resp, wh, tp, listing, reviews, users,
                   cr, vw, mail, am>>

\* await db.ads.update_one(..., {"$inc": {"favorites_count": 1}}) and return
fa_inc(r) ==
    /\ fq[r].pc = "inc"
    /\ ads' = IF fq[r].ad_id \in DOMAIN ads
              THEN [ads EXCEPT ![fq[r].ad_id].favorites_count = @ + 1]
              ELSE ads
    /\ resp' = Response("add_favorite", 200, 0)
    /\ mail' = {}
    /\ fq' = [fq EXCEPT ![r] = IdleFavorite]
    /\ UNCHANGED <<now, payments, wh, tp, listing, reviews, users, cr, vw,
                   favorites, am>>

\* DELETE /favorites/{ad_id}: result = await db.favorites.delete_one(...);
\* 404 when deleted_count == 0
fr_delete(r, user, ad_id) ==
    /\ fq[r].pc = "idle"
    /\ IF favorites[<<user, ad_id>>] = 0
       THEN /\ resp' = Response("remove_favorite", 404, 0)
            /\ mail' = {}
            /\ UNCHANGED <<favorites, fq>>
       ELSE /\ favorites' = [favorites EXCEPT ![<<user, ad_id>>] = @ - 1]
            /\ fq' = [fq EXCEPT ![r] = [pc |-> "dec", user |-> user,
                                       ad_id |-> ad_id]]
            /\ UNCHANGED <<resp, mail>>
    /\ UNCHANGED <<now, ads, payments, wh, tp, listing, reviews, users, cr, vw, am>>

\* await db.ads.update_one(..., {"$inc": {"favorites_count": -1}}) and return
fr_dec(r) ==
    /\ fq[r].pc = "dec"
    /\ ads' = IF fq[r].ad_id \in DOMAIN ads
              THEN [ads EXCEPT ![fq[r].ad_id].favorites_count = @ - 1]
              ELSE ads
    /\ resp' = Response("remove_favorite", 200, 0)
    /\ mail' = {}
    /\ fq' = [fq EXCEPT ![r] = IdleFavorite]
    /\ UNCHANGED <<now, payments, wh, tp, listing, reviews, users, cr, vw,
                   favorites, am>>

\* ------------------------------------------- send_email_notification ----
\* the sender with its failure raised into the request that created the task
send_email_notification_Raises(m, outcome) ==
    /\ m \in mail
    /\ m.status = "pending"
    /\ mail' = (mail \ {m}) \cup {[m EXCEPT !.status = outcome]}
    /\ resp' = IF outcome = "failed" THEN [resp EXCEPT !.code = 500] ELSE resp
    /\ UNCHANGED <<now, ads, payments, wh, others>>

\* The task asyncio.create_task scheduled runs after the request's handler
\* has gone on: it is skipped without RESEND_API_KEY, it is sent, or the
\* exception of the template or of the send is caught and logged.  A task
\* that never completes stays pending.
send_email_notification(m, outcome) ==
    /\ m \in mail
    /\ m.status = "pending"
    /\ mail' = (mail \ {m}) \cup {[m EXCEPT !.status = outcome]}
    /\ UNCHANGED <<now, ads, payments, resp, wh, others>>

\* ------------------------------------------------------------ listing ----
SortModes == {"newest", "oldest", "price_low", "price_high", "boosted"}

\* no category_id parameter in the query string
NoFilter == ""

\* sort_options with newest ordered by creation time alone
sort_options_NoRank(sort) ==
    CASE sort = "newest" -> << <<"created_at", -1>> >>
      [] sort = "oldest" -> << <<"created_at", 1>> >>
      [] sort = "price_low" -> << <<"topup_rank", -1>>, <<"price", 1>> >>
      [] sort = "price_high" -> << <<"topup_rank", -1>>, <<"price", -1>> >>
      [] sort = "boosted" ->
            << <<"topup_rank", -1>>, <<"is_boosted", -1>>,
               <<"boost_expires_at", -1>>, <<"created_at", -1>> >>

\* sort_options[sort]: a list of (field, direction)
sort_options(sort) ==
    CASE sort = "newest" -> << <<"topup_rank", -1>>, <<"created_at", -1>> >>
      [] sort = "oldest" -> << <<"created_at", 1>> >>
      [] sort = "price_low" -> << <<"topup_rank", -1>>, <<"price", 1>> >>
      [] sort = "price_high" -> << <<"topup_rank", -1>>, <<"price", -1>> >>
      [] sort = "boosted" ->
            << <<"topup_rank", -1>>, <<"is_boosted", -1>>,
               <<"boost_expires_at", -1>>, <<"created_at", -1>> >>

\* sort_by: sort_options.get(sort, sort_options["newest"]), and for the
\* escorts category topup_rank and is_boosted put in front of what is left
SortBy(category_id, sort) ==
    LET chosen == IF sort \in SortModes THEN sort_options(sort)
                  ELSE sort_options("newest")
        NotFolded(k) == k[1] \notin {"topup_rank", "is_boosted"}
    IN IF category_id = "escorts"
       THEN << <<"topup_rank", -1>>, <<"is_boosted", -1>> >>
            \o SelectSeq(chosen, NotFolded)
       ELSE chosen

\* the value the store compares for a sort field: null sorts below every
\* number and string (None is below every timestamp and price), false
\* below true
SortValue(ad, field) ==
    CASE field = "topup_rank" -> ad.topup_rank
      [] field = "created_at" -> ad.created_at
      [] field = "price" -> ad.price
      [] field = "is_boosted" -> IF ad.is_boosted THEN 1 ELSE 0
      [] field = "boost_expires_at" -> ad.boost_expires_at
      [] field = "promote_expires_at" -> ad.promote_expires_at

\* cursor.sort(sort_by): -1 when x comes before y, 1 when after, 0 when
\* no key separates them
RECURSIVE SortCompare(_, _, _)
SortCompare(x, y, sort_by) ==
    IF sort_by = <<>> THEN 0
    ELSE LET field == Head(sort_by)[1]
             dir == Head(sort_by)[2]
             vx == SortValue(x, field)
             vy == SortValue(y, field)
         IN IF vx = vy THEN SortCompare(x, y, Tail(sort_by))
            ELSE IF (vx - vy) * dir < 0 THEN -1 ELSE 1

\* the query without the status filter
Matches_AnyStatus(ad, category_id) ==
    category_id = NoFilter \/ ad.category_id = category_id

\* query = {"status": "active"} and, when given, the category_id
Matches(ad, category_id) ==
    /\ ad.status = "active"
    /\ category_id = NoFilter \/ ad.category_id = category_id

\* the orders in which the store may return the ads of a set: every
\* arrangement that respects sort_by (ads no key separates come in any
\* order)
SortedSeqs(ids, sort_by) ==
    {q \in [1..Cardinality(ids) -> ids] :
        /\ \A i, j \in DOMAIN q : i # j => q[i] # q[j]
        /\ \A i, j \in DOMAIN q :
              i < j => SortCompare(ads[q[i]], ads[q[j]], sort_by) <= 0}

\* GET /ads, first page (page = 1, limit = 20)
get_ads(category_id, sort) ==
    LET found == {a \in DOMAIN ads : Matches(ads[a], category_id)}
    IN
    /\ \E q \in SortedSeqs(found, SortBy(category_id, sort)) :
          listing' = [category_id |-> category_id, sort |-> sort,
                      ids |-> SubSeq(q, 1, IF Len(q) < PageLimit THEN Len(q)
                                           ELSE PageLimit)]
    /\ resp' = Response("get_ads", 200, 0)
    /\ mail' = {}
    /\ UNCHANGED <<now, ads, payments, wh, tp, reviews, users, cr, vw,
                   favorites, fq, am>>

\* limit: int = 10 of get_promoted_ads
PromotedLimit == 10

\* GET /ads/promoted: query = {"status": "active", "is_promoted": True},
\* sorted by promote_expires_at descending
get_promoted_ads(limit) ==
    LET found == {a \in DOMAIN ads :
                     ads[a].status = "active" /\ ads[a].is_promoted}
    IN
    /\ \E q \in SortedSeqs(found, << <<"promote_expires_at", -1>> >>) :
          listing' = [category_id |-> NoFilter, sort |-> "promoted",
                      ids |-> SubSeq(q, 1, IF Len(q) < limit THEN Len(q)
                                           ELSE limit)]
    /\ resp' = Response("get_promoted_ads", 200, 0)
    /\ mail' = {}
    /\ UNCHANGED <<now, ads, payments, wh, tp, reviews, users, cr, vw,
                   favorites, fq, am>>

\* ------------------------------------------------------------ reviews ----
\* the ids of the reviews of a seller
ReviewsOf(revs, seller_id) ==
    {id \in DOMAIN revs : revs[id].seller_id = seller_id}

\* the sum of the ratings of a set of reviews
RECURSIVE SumRatings(_, _)
SumRatings(revs, ids) ==
    IF ids = {} THEN 0
    ELSE LET id == CHOOSE x \in ids : TRUE
         IN revs[id].rating + SumRatings(revs, ids \ {id})

\* round(total / n, 1) in tenths: to the nearest tenth, a tie to the even
\* one
RoundTenths(total, n) ==
    LET q == (10 * total) \div n
        rem == (10 * total) % n
    IN IF 2 * rem < n THEN q
       ELSE IF 2 * rem > n THEN q + 1
       ELSE IF q % 2 = 0 THEN q ELSE q + 1

\* update_seller_rating: the $group stage yields no document when the
\* seller has no review, and then nothing is written
update_seller_rating(us, revs, seller_id) ==
    LET ids == ReviewsOf(revs, seller_id)
    IN IF ids # {} /\ seller_id \in DOMAIN us
       THEN [us EXCEPT ![seller_id] =
               [avg_rating |-> RoundTenths(SumRatings(revs, ids),
                                           Cardinality(ids)),
                total_reviews |-> Cardinality(ids)]]
       ELSE us

\* create_review without the self-review test
create_review_NoSelfTest(user, seller_id, ad_id, rating, review_id) ==
    \* review_id is a fresh uuid
    /\ review_id \notin DOMAIN reviews
    /\ IF rating < 1 \/ rating > 5
       THEN /\ resp' = Response("create_review", 400, 0)
            /\ UNCHANGED <<reviews, users>>
       ELSE IF seller_id \notin DOMAIN users
       THEN /\ resp' = Response("create_review", 404, 0)
            /\ UNCHANGED <<reviews, users>>
       ELSE IF \E id \in DOMAIN reviews :
                  /\ reviews[id].reviewer_id = user
                  /\ reviews[id].seller_id = seller_id
                  /\ reviews[id].ad_id = ad_id
       THEN /\ resp' = Response("create_review", 400, 0)
            /\ UNCHANGED <<reviews, users>>
       ELSE /\ reviews' = reviews @@
                  (review_id :> [reviewer_id |-> user,
                                 seller_id |-> seller_id,
                                 ad_id |-> ad_id,
                                 rating |-> rating])
            /\ users' = update_seller_rating(users, reviews', seller_id)
            /\ resp' = Response("create_review", 200, 0)
    /\ mail' = {}
    /\ UNCHANGED <<now, ads, payments, wh, tp, listing, cr, vw,
                   favorites, fq, am>>

\* POST /reviews
create_review(user, seller_id, ad_id, rating, review_id) ==
    \* review_id is a fresh uuid
    /\ review_id \notin DOMAIN reviews
    /\ IF rating < 1 \/ rating > 5
       THEN /\ resp' = Response("create_review", 400, 0)
            /\ UNCHANGED <<reviews, users>>
       ELSE IF seller_id = user
       THEN /\ resp' = Response("create_review", 400, 0)
            /\ UNCHANGED <<reviews, users>>
       ELSE IF seller_id \notin DOMAIN users
       THEN /\ resp' = Response("create_review", 404, 0)
            /\ UNCHANGED <<reviews, users>>
       ELSE IF \E id \in DOMAIN reviews :
                  /\ reviews[id].reviewer_id = user
                  /\ reviews[id].seller_id = seller_id
                  /\ reviews[id].ad_id = ad_id
       THEN /\ resp' = Response("create_review", 400, 0)
            /\ UNCHANGED <<reviews, users>>
       ELSE /\ reviews' = reviews @@
                  (review_id :> [reviewer_id |-> user,
                                 seller_id |-> seller_id,
                                 ad_id |-> ad_id,
                                 rating |-> rating])
            /\ users' = update_seller_rating(users, reviews', seller_id)
            /\ resp' = Response("create_review", 200, 0)
    /\ mail' = {}
    /\ UNCHANGED <<now, ads, payments, wh, tp, listing, cr, vw,
                   favorites, fq, am>>

\* DELETE /reviews/{review_id}
delete_review(user, review_id) ==
    /\ IF review_id \notin DOMAIN reviews
       THEN /\ resp' = Response("delete_review", 404, 0)
            /\ UNCHANGED <<reviews, users>>
       ELSE IF reviews[review_id].reviewer_id # user /\ Role(user) # "admin"
       THEN /\ resp' = Response("delete_review", 403, 0)
            /\ UNCHANGED <<reviews, users>>
       ELSE /\ reviews' = [id \in DOMAIN reviews \ {review_id} |->
                             reviews[id]]
            /\ users' = update_seller_rating(users, reviews',
                                             reviews[review_id].seller_id)
            /\ resp' = Response("delete_review", 200, 0)
    /\ mail' = {}
    /\ UNCHANGED <<now, ads, payments, wh, tp, listing, cr, vw,
                   favorites, fq, am>>

\* ------------------------------- create_review, one store call a step ----
\* the rating and self-review tests and seller = await db.users.find_one
\* (lines 2731-2742)
cr_start(r, user, seller_id, ad_id, rating) ==
    LET refused == IF rating < 1 \/ rating > 5 THEN 400
                   ELSE IF seller_id = user THEN 400
                   ELSE IF seller_id \notin DOMAIN users THEN 404
                   ELSE 0
    IN
    /\ cr[r].pc = "idle"
    /\ cr' = [cr EXCEPT ![r] =
                [pc |-> IF refused # 0 THEN "done" ELSE "find",
                 user |-> user, seller_id |-> seller_id, ad_id |-> ad_id,
                 rating |-> rating, review_id |-> "none", result |-> NoResult,
                 code |-> refused]]
    /\ UNCHANGED <<now, ads, payments, resp, wh, tp, listing, reviews, users,
                   vw, mail,
                   favorites, fq, am>>

\* existing_review = await db.reviews.find_one(...) and its test
cr_find_existing(r) ==
    LET existing == \E id \in DOMAIN reviews :
                       /\ reviews[id].reviewer_id = cr[r].user
                       /\ reviews[id].seller_id = cr[r].seller_id
                       /\ reviews[id].ad_id = cr[r].ad_id
    IN
    /\ cr[r].pc = "find"
    /\ cr' = [cr EXCEPT ![r].pc = IF existing THEN "done" ELSE "insert",
                        ![r].code = IF existing THEN 400 ELSE 0]
    /\ UNCHANGED <<now, ads, payments, resp, wh, tp, listing, reviews, users,
                   vw, mail,
                   favorites, fq, am>>

\* await db.reviews.insert_one(review_doc)
cr_insert(r, review_id) ==
    /\ cr[r].pc = "insert"
    \* review_id is a fresh uuid
    /\ review_id \notin DOMAIN reviews
    /\ reviews' = reviews @@
          (review_id :> [reviewer_id |-> cr[r].user,
                         seller_id |-> cr[r].seller_id,
                         ad_id |-> cr[r].ad_id,
                         rating |-> cr[r].rating])
    /\ cr' = [cr EXCEPT ![r].pc = "rating", ![r].review_id = review_id]
    /\ UNCHANGED <<now, ads, payments, resp, wh, tp, listing, users, vw, mail,
                   favorites, fq, am>>

\* await update_seller_rating(data.seller_id) and the return
cr_rating(r) ==
    /\ cr[r].pc = "rating"
    /\ users' = update_seller_rating(users, reviews, cr[r].seller_id)
    /\ cr' = [cr EXCEPT ![r].pc = "done", ![r].code = 200]
    /\ UNCHANGED <<now, ads, payments, resp, wh, tp, listing, reviews, vw,
                   mail,
                   favorites, fq, am>>

\* result = await db.reviews.aggregate(pipeline).to_list(1)
cr_aggregate(r) ==
    LET ids == ReviewsOf(reviews, cr[r].seller_id) IN
    /\ cr[r].pc = "rating"
    /\ cr' = [cr EXCEPT
                ![r].pc = "set",
                ![r].result =
                    IF ids = {} THEN NoResult
                    ELSE [avg_rating |-> RoundTenths(SumRatings(reviews, ids),
                                                     Cardinality(ids)),
                          total_reviews |-> Cardinality(ids)]]
    /\ UNCHANGED <<now, ads, payments, resp, wh, tp, listing, reviews, users,
                   vw, mail, favorites, fq, am>>

\* "if result: await db.users.update_one(...)" and the return
cr_set_rating(r) ==
    /\ cr[r].pc = "set"
    /\ users' = IF cr[r].result # NoResult /\ cr[r].seller_id \in DOMAIN users
                THEN [users EXCEPT ![cr[r].seller_id] =
                        [avg_rating |-> cr[r].result.avg_rating,
                         total_reviews |-> cr[r].result.total_reviews]]
                ELSE users
    /\ cr' = [cr EXCEPT ![r].pc = "done", ![r].code = 200]
    /\ UNCHANGED <<now, ads, payments, resp, wh, tp, listing, reviews, vw,
                   mail, favorites, fq, am>>

\* The outcome of a call to the gateway: a 200 response, another status,
\* or an httpx exception (timeout, connection error).
GatewayOutcomes == {"ok", "non200", "error"}

\* get_viva_access_token inside the try/except of create_payment_order:
\* both the HTTPException(502) it raises and an httpx exception are caught
\* by "except Exception" and become a 502.
TokenStatus(token) == IF token = "ok" THEN 200 ELSE 502

\* the order-creation POST: a non-200 response is turned into a 502; an
\* httpx exception is not caught and leaves the handler as a 500.
OrderStatus(order) ==
    CASE order = "ok" -> 200
      [] order = "non200" -> 502
      [] order = "error" -> 500

\* POST /payments/create-order
create_payment_order(user, ad_id, payment_type, token, order) ==
    /\ IF payment_type \notin PaymentKinds
       THEN /\ resp' = Response("create_payment_order", 400, 0)
            /\ UNCHANGED payments
       ELSE IF TokenStatus(token) # 200
       THEN /\ resp' = Response("create_payment_order", TokenStatus(token), 0)
            /\ UNCHANGED payments
       ELSE IF OrderStatus(order) # 200
       THEN /\ resp' = Response("create_payment_order", OrderStatus(order), 0)
            /\ UNCHANGED payments
       ELSE \* data.get("orderCode"): the gateway issues a code it has
            \* not issued before
            /\ \E order_code \in OrderCodes \ DOMAIN payments :
                 payments' = payments @@
                    (order_code :>
                        NewPayment(order_code, ad_id, user, payment_type, now))
            /\ resp' = Response("create_payment_order", 200, 0)
    /\ mail' = {}
    /\ UNCHANGED <<now, ads, wh, others>>

\* POST /payments/webhook, one delivery handled without interruption
payment_webhook(e) ==
    LET trns == ParseTrns(e.MerchantTrns) IN
    /\ IF trns.raised
       THEN /\ resp' = Response("payment_webhook", 500, 0)
            /\ mail' = {}
            /\ UNCHANGED <<ads, payments>>
       ELSE IF e.StatusId = "F"
       THEN /\ payments' = UpdatePayment(payments, e.OrderCode,
                                         e.TransactionId, now)
            /\ ads' = ApplyEffect(ads, trns.ad_id, trns.payment_type, now)
            /\ mail' = PaymentMail(e.OrderCode \in DOMAIN payments, e)
            /\ resp' = Response("payment_webhook", 200, 0)
       ELSE /\ resp' = Response("payment_webhook", 200, 0)
            /\ mail' = {}
            /\ UNCHANGED <<ads, payments>>
    /\ UNCHANGED <<now, wh, others>>

\* ---------------------------------------- webhook, one store call a step ----
\* The event the gateway sends for an order it has issued: the successful
\* status, the transaction of that order and the correlation data echoed.
GatewayEvent(c) ==
    [OrderCode |-> c, StatusId |-> "F", TransactionId |-> "t1",
     MerchantTrns |-> EchoTrns(payments[c].ad_id, payments[c].payment_type)]

\* request.json(), json.loads and the status test (lines 1519-1537)
wh_receive(h, e) ==
    LET trns == ParseTrns(e.MerchantTrns)
        again == \E g \in Handlers \ {h} :
                    wh[g].pc = "done" /\ wh[g].code = 200 /\ wh[g].ev = e
    IN
    /\ wh[h].pc = "idle"
    /\ wh' = [wh EXCEPT ![h] =
                [pc |-> IF trns.raised \/ e.StatusId # "F" THEN "done"
                        ELSE "find",
                 ev |-> e,
                 found |-> FALSE,
                 code |-> IF trns.raised THEN 500
                          ELSE IF e.StatusId # "F" THEN 200 ELSE 0,
                 replay |-> again]]
    /\ UNCHANGED <<now, ads, payments, resp, others, mail>>

\* payment = await db.payments.find_one(...)
wh_find_payment(h) ==
    /\ wh[h].pc = "find"
    /\ wh' = [wh EXCEPT ![h].pc = "update_payment",
                        ![h].found = (wh[h].ev.OrderCode \in DOMAIN payments)]
    /\ UNCHANGED <<now, ads, payments, resp, others, mail>>

\* await db.payments.update_one(...)
wh_update_payment(h) ==
    /\ wh[h].pc = "update_payment"
    /\ payments' = UpdatePayment(payments, wh[h].ev.OrderCode,
                                 wh[h].ev.TransactionId, now)
    /\ wh' = [wh EXCEPT ![h].pc = "update_ad"]
    /\ UNCHANGED <<now, ads, resp, others, mail>>

\* the payment_type branch with a boost that also moves the ad to the top
wh_update_ad_BumpsRank(h) ==
    LET trns == ParseTrns(wh[h].ev.MerchantTrns)
        paid == ApplyEffect(ads, trns.ad_id, trns.payment_type, now)
    IN
    /\ wh[h].pc = "update_ad"
    /\ ads' = IF trns.ad_id \in DOMAIN ads /\ trns.payment_type = "boost"
              THEN [paid EXCEPT ![trns.ad_id].topup_rank = now]
              ELSE paid
    /\ wh' = [wh EXCEPT ![h].pc = "notify"]
    /\ UNCHANGED <<now, payments, resp, others, mail>>

\* await db.ads.update_one(...) of the payment_type branch
wh_update_ad(h) ==
    LET trns == ParseTrns(wh[h].ev.MerchantTrns) IN
    /\ wh[h].pc = "update_ad"
    /\ ads' = ApplyEffect(ads, trns.ad_id, trns.payment_type, now)
    /\ wh' = [wh EXCEPT ![h].pc = "notify"]
    /\ UNCHANGED <<now, payments, resp, others, mail>>

\* the confirmation e-mail task and return {"status": "received"}
wh_notify(h) ==
    /\ wh[h].pc = "notify"
    /\ wh' = [wh EXCEPT ![h].pc = "done", ![h].code = 200]
    /\ mail' = PaymentMail(wh[h].found, wh[h].ev)
    /\ UNCHANGED <<now, ads, payments, resp, others>>

\* ------------------------------------------------------ specification ----
\* The requests to create-order tried: an unknown kind, and for each kind
\* every outcome of the token exchange and, once that succeeded, of the
\* order creation.
CreateOrderInputs ==
    {<<"bogus", "ok", "ok">>}
    \cup {<<k, tk, "ok">> : k \in PaymentKinds, tk \in GatewayOutcomes}
    \cup {<<k, "ok", od>> : k \in PaymentKinds, od \in GatewayOutcomes}

\* Payments: publication, order creation and webhook deliveries, one
\* request at a time.
Next ==
    \/ Tick(TickSeconds)
    \/ \E c \in Categories : create_ad("u1", c, "ad1")
    \* the client names an ad it has seen, or an id of no ad
    \/ \E a \in DOMAIN ads \cup {UnknownAd}, i \in CreateOrderInputs :
          create_payment_order("u1", a, i[1], i[2], i[3])
    \/ \E e \in Events : payment_webhook(e)

Spec == Init /\ [][Next]_vars

\* Ad lifecycle: publication, moderation, topup and the effects of paid
\* webhooks on an ad, one request at a time.
LifecycleEvents ==
    {e \in Events : /\ e.StatusId = "F"
                    /\ e.TransactionId = "t1"
                    /\ e.OrderCode = UnknownCode
                    /\ e.MerchantTrns.form = "object"
                    /\ e.MerchantTrns.ad_id \in AdIds
                    /\ e.MerchantTrns.payment_type \in PaymentKinds}

NextAds ==
    \/ Tick(TickSeconds)
    \/ \E u \in {"u1", "u2"}, c \in Categories : create_ad(u, c, "ad1")
    \/ \E u \in {"u1", "adm"}, a \in AdIds, s \in AdStatuses \cup {"bogus"} :
          admin_update_ad_status(u, a, s)
    \/ \E u \in {"u1", "u2"}, a \in AdIds : topup_ad(u, a)
    \/ \E e \in LifecycleEvents : payment_webhook(e)

SpecAds == Init /\ [][NextAds]_vars

\* Concurrent deliveries: the gateway delivers the event of an order up to
\* once per handler, and the handlers' store calls interleave with each
\* other, with the clock and with the administrator.
NextConc ==
    \/ Tick(TickSeconds)
    \/ \E c \in Categories : create_ad("u1", c, "ad1")
    \/ \E a \in DOMAIN ads, k \in PaymentKinds :
          create_payment_order("u1", a, k, "ok", "ok")
    \/ admin_update_ad_status("adm", "ad1", "active")
    \/ \E h \in Handlers, c \in DOMAIN payments :
          wh_receive(h, GatewayEvent(c))
    \/ \E h \in Handlers : wh_find_payment(h)
    \/ \E h \in Handlers : wh_update_payment(h)
    \/ \E h \in Handlers : wh_update_ad(h)
    \/ \E h \in Handlers : wh_notify(h)

SpecConc == Init /\ [][NextConc]_vars

\* What is done to an ad once it is published: the owner edits it, tops it
\* up and toggles auto-topup, visitors view it, the administrator
\* moderates it and paid webhooks naming it arrive.
OwnerBodies ==
    {b \in UpdateBodies : b.price \in {NoField, 10}
                          /\ b.status \in {"absent", "active"}}

NextOwner ==
    \/ Tick(TickSeconds)
    \/ \E c \in Categories : create_ad("u1", c, "ad1")
    \/ \E s \in AdStatuses : admin_update_ad_status("adm", "ad1", s)
    \/ \E u \in Users, b \in OwnerBodies : update_ad(u, "ad1", b)
    \/ \E u \in {"u1", "u2"} : topup_ad(u, "ad1")
    \/ \E u \in {"u1", "u2"}, en \in BOOLEAN :
          toggle_auto_topup(u, "ad1", en)
    \/ \E a \in AdIds :
          /\ a \in DOMAIN ads => ads[a].views < MaxViews
          /\ get_ad(a)
    \/ \E e \in LifecycleEvents :
          e.MerchantTrns.ad_id = "ad1" /\ payment_webhook(e)

SpecOwner == Init /\ [][NextOwner]_vars

\* Manual topup against the clock: ads of an owner with and without
\* referrals, moderated by the administrator, topped up by the owner, by
\* another user and by the administrator at clock distances below, at and
\* above both cooldowns.
NextTopup ==
    \/ TickUntil(TickSeconds, TopupMaxTime)
    \/ TickUntil(TickOdd, TopupMaxTime)
    \/ \E u \in {"u1", "u2"}, c \in Categories : create_ad(u, c, "ad1")
    \/ \E s \in {"active", "rejected"} :
          admin_update_ad_status("adm", "ad1", s)
    \/ \E u \in Users, a \in AdIds : topup_ad(u, a)

SpecTopup == Init /\ [][NextTopup]_vars

\* Concurrent topups: each requester sends one topup for the ad, and the
\* store calls of the two requests interleave with each other, with the
\* clock, with the administrator and with paid webhooks.
NextTopupConc ==
    \/ TickUntil(TickSeconds, TopupMaxTime)
    \/ \E u \in {"u1", "u2"}, c \in Categories : create_ad(u, c, "ad1")
    \/ \E s \in {"active", "rejected"} :
          admin_update_ad_status("adm", "ad1", s)
    \/ \E e \in LifecycleEvents :
          e.MerchantTrns.ad_id = "ad1" /\ payment_webhook(e)
    \/ \E r \in Requesters, a \in DOMAIN ads :
          tp_find(r, ads[a].user_id, a)
    \/ \E r \in Requesters : tp_check(r)
    \/ \E r \in Requesters : tp_write(r)

SpecTopupConc == Init /\ [][NextTopupConc]_vars

\* Listing: the query is a function of the stored ads, so the
\* specification starts from the stores that two publications, approvals,
\* topups, price edits and boosts can have produced by ListTime, and then
\* queries them while the administrator moderates the first ad.
ListTime == StartTime + 3 * TickSeconds

\* an ad published at `created`, then approved by the administrator (or
\* not), given a price by its owner, topped up at ListTime (or not) and
\* boosted by a paid webhook at `boosted` (or not)
ListedDoc(category_id, created, approved, price, topped, boosted) ==
    LET d0 == NewAd("u1", category_id, created)
        d1 == IF approved
              THEN [d0 EXCEPT !.status = "active", !.updated_at = ListTime]
              ELSE d0
        d2 == [d1 EXCEPT !.price = price, !.updated_at = ListTime]
        d3 == IF topped
              THEN [d2 EXCEPT !.last_topup = ListTime,
                              !.topup_rank = ListTime]
              ELSE d2
    IN IF boosted # None
       THEN ApplyEffect("ad1" :> d3, "ad1", "boost", boosted)["ad1"]
       ELSE d3

ListDocs ==
    {ListedDoc(c, ct, ap, p, tu, b) :
        <<c, ct, ap, p, tu, b>> \in
          {x \in Categories \X {StartTime, ListTime} \X BOOLEAN
                 \X Prices \X BOOLEAN
                 \X {None, StartTime, ListTime} :
             \* only escorts ads wait for approval
             /\ x[3] => x[1] = "escorts"
             \* a topup needs an active ad and a cooldown since publication
             /\ x[5] => \/ x[1] = "escorts" /\ x[3]
                        \/ x[1] = "cars"
                           /\ ~InCooldown("u1", x[2], ListTime)
             \* a boost is paid after publication
             /\ x[6] # None => x[6] >= x[2]}}

InitList ==
    /\ now = ListTime
    /\ \E d1, d2 \in ListDocs : ads = ("ad1" :> d1) @@ ("ad2" :> d2)
    /\ payments = <<>>
    /\ resp = Response("none", 0, 0)
    /\ wh = [h \in Handlers |-> IdleHandler]
    /\ tp = [r \in Requesters |-> IdleTopup]
    /\ listing = NoListing
    /\ reviews = <<>>
    /\ users = [u \in Users |-> NewUser]
    /\ cr = [r \in Requesters |-> IdleCreate]
    /\ vw = [r \in Requesters |-> IdleView]
    /\ mail = {}
    /\ favorites = NoFavorites
    /\ fq = [r \in Requesters |-> IdleFavorite]
    /\ am = [r \in Requesters |-> IdleModeration]

NextList ==
    \/ \E c \in {NoFilter} \cup Categories, m \in SortModes \cup {"bogus"} :
          get_ads(c, m)
    \/ \E st \in {"active", "rejected"} :
          admin_update_ad_status("adm", "ad1", st)

SpecList == InitList /\ [][NextList]_vars

\* Reviews: users review the sellers u2 and u1 (once without an ad, once
\* for an ad) and delete reviews, one request at a time.
NextReviews ==
    \/ \E u \in {"u1", "adm"}, sl \in {"u2", "u1", UnknownUser},
          a \in {"none", "ad1"}, rt \in {0, 3, 4, 5, 6},
          id \in ReviewIds :
          create_review(u, sl, a, rt, id)
    \/ \E u \in Users, id \in ReviewIds : delete_review(u, id)

SpecReviews == Init /\ [][NextReviews]_vars

\* Concurrent review creation: the reviewer u1 sends up to two
\* create-review requests for the seller u2, whose store calls interleave.
NextReviewsConc ==
    \/ \E r \in Requesters, a \in {"none", "ad1"}, rt \in {4, 5} :
          cr_start(r, "u1", "u2", a, rt)
    \/ \E r \in Requesters : cr_find_existing(r)
    \/ \E r \in Requesters, id \in ReviewIds : cr_insert(r, id)
    \/ \E r \in Requesters : cr_rating(r)

SpecReviewsConc == Init /\ [][NextReviewsConc]_vars

\* Concurrent reviews of one seller: u2 and the administrator each review
\* the seller u1 once, and the store calls of the two requests, the
\* aggregate and the write of update_seller_rating included, interleave.
NextRatingConc ==
    \/ \E rt \in {1, 5} : cr_start("r1", "u2", "u1", "none", rt)
    \/ \E rt \in {1, 5} : cr_start("r2", "adm", "u1", "none", rt)
    \/ \E r \in Requesters : cr_find_existing(r)
    \/ \E r \in Requesters, id \in ReviewIds : cr_insert(r, id)
    \/ \E r \in Requesters : cr_aggregate(r)
    \/ \E r \in Requesters : cr_set_rating(r)

SpecRatingConc == Init /\ [][NextRatingConc]_vars

\* Deletion: the specification starts from a store in which u1 has
\* published ad1 (cars) and u2 ad2 (escorts), u1 has ordered a boost of ad1
\* and u2 has reviewed the seller u1 for ad1; then ads are deleted while
\* the other operations on them, and the webhook of the order, go on.
InitDelete ==
    LET review == [reviewer_id |-> "u2", seller_id |-> "u1",
                   ad_id |-> "ad1", rating |-> 5]
    IN
    /\ now = StartTime
    /\ ads = ("ad1" :> NewAd("u1", "cars", StartTime))
              @@ ("ad2" :> NewAd("u2", "escorts", StartTime))
    /\ payments = (1 :> NewPayment(1, "ad1", "u1", "boost", StartTime))
    /\ reviews = ("rv1" :> review)
    /\ users = update_seller_rating([u \in Users |-> NewUser],
                                    "rv1" :> review, "u1")
    /\ resp = Response("create_review", 200, 0)
    /\ wh = [h \in Handlers |-> IdleHandler]
    /\ tp = [r \in Requesters |-> IdleTopup]
    /\ listing = NoListing
    /\ cr = [r \in Requesters |-> IdleCreate]
    /\ vw = [r \in Requesters |-> IdleView]
    /\ mail = {}
    /\ favorites = NoFavorites
    /\ fq = [r \in Requesters |-> IdleFavorite]
    /\ am = [r \in Requesters |-> IdleModeration]

NextDelete ==
    \/ \E u \in Users, a \in AdIds : delete_ad(u, a)
    \/ \E a \in AdIds, st \in {"active", "rejected"} :
          admin_update_ad_status("adm", a, st)
    \/ \E u \in {"u1", "u2"}, a \in AdIds : topup_ad(u, a)
    \/ \E u \in {"u1", "u2"}, a \in AdIds :
          update_ad(u, a, [price |-> 10, status |-> "absent"])
    \/ \E u \in {"u1", "u2"}, a \in AdIds : toggle_auto_topup(u, a, FALSE)
    \/ \E a \in AdIds :
          /\ a \in DOMAIN ads => ads[a].views < MaxViews
          /\ get_ad(a)
    \/ payment_webhook(GatewayEvent(1))

SpecDelete == InitDelete /\ [][NextDelete]_vars

\* Concurrent views: two clients call GET /ads/ad1 again and again, up to
\* MaxViews times each, while the owner edits the ad and the administrator
\* moderates it.
NextViews ==
    \/ create_ad("u1", "cars", "ad1")
    \/ \E r \in Requesters : vw[r].done < MaxViews /\ gv_find(r, "ad1")
    \/ \E r \in Requesters : gv_inc(r)
    \/ \E r \in Requesters : gv_return(r)
    \/ update_ad("u1", "ad1", [price |-> 10, status |-> "absent"])
    \/ \E st \in {"active", "rejected"} :
          admin_update_ad_status("adm", "ad1", st)

SpecViews == Init /\ [][NextViews]_vars

\* Notifications: ad1 of u1 is one view short of the first milestone and u1
\* has a boost order for it; ads are published, moderated and viewed and the
\* gateway reports the payment, while the e-mail tasks run on their own.
InitMail ==
    /\ now = StartTime
    /\ ads = ("ad1" :> [NewAd("u1", "cars", StartTime) EXCEPT !.views = 99])
    /\ payments = (1 :> NewPayment(1, "ad1", "u1", "boost", StartTime))
    /\ reviews = <<>>
    /\ users = [u \in Users |-> NewUser]
    /\ resp = Response("create_payment_order", 200, 0)
    /\ wh = [h \in Handlers |-> IdleHandler]
    /\ tp = [r \in Requesters |-> IdleTopup]
    /\ listing = NoListing
    /\ cr = [r \in Requesters |-> IdleCreate]
    /\ vw = [r \in Requesters |-> IdleView]
    /\ mail = {}
    /\ favorites = NoFavorites
    /\ fq = [r \in Requesters |-> IdleFavorite]
    /\ am = [r \in Requesters |-> IdleModeration]

MailOutcomes == {"skipped", "sent", "failed"}

NextMail ==
    \/ Tick(TickSeconds)
    \/ create_ad("u2", "escorts", "ad2")
    \/ \E a \in AdIds, st \in {"active", "rejected", "pending"} :
          admin_update_ad_status("adm", a, st)
    \/ ads["ad1"].views < 99 + MaxViews /\ get_ad("ad1")
    \/ payment_webhook(GatewayEvent(1))
    \/ \E m \in mail, outcome \in MailOutcomes :
          send_email_notification(m, outcome)

SpecMail == InitMail /\ [][NextMail]_vars

\* One topup and one webhook on the same ad.  The ad is one of three
\* documents, told apart by owner and category: a cars ad of u1 just
\* published (active, in cooldown), an escorts ad of u2 the administrator
\* approved (active, never topped up) and an escorts ad of u1 awaiting
\* moderation.  The owner has one order of some kind for it.
CommuteDocs ==
    {NewAd("u1", "cars", StartTime),
     [NewAd("u2", "escorts", StartTime) EXCEPT !.status = "active"],
     NewAd("u1", "escorts", StartTime)}

InitCommute ==
    /\ now = StartTime
    /\ \E d \in CommuteDocs, kind \in PaymentKinds :
          /\ ads = ("ad1" :> d)
          /\ payments = (1 :> NewPayment(1, "ad1", d.user_id, kind, StartTime))
    /\ reviews = <<>>
    /\ users = [u \in Users |-> NewUser]
    /\ resp = Response("create_payment_order", 200, 0)
    /\ wh = [h \in Handlers |-> IdleHandler]
    /\ tp = [r \in Requesters |-> IdleTopup]
    /\ listing = NoListing
    /\ cr = [r \in Requesters |-> IdleCreate]
    /\ vw = [r \in Requesters |-> IdleView]
    /\ mail = {}
    /\ favorites = NoFavorites
    /\ fq = [r \in Requesters |-> IdleFavorite]
    /\ am = [r \in Requesters |-> IdleModeration]

\* The owner's request r1 and the gateway's delivery h1 run once each, one
\* store call a step, while the clock advances.
NextCommute ==
    \/ TickUntil(TickSeconds, TopupMaxTime)
    \/ tp_find("r1", ads["ad1"].user_id, "ad1")
    \/ tp_check("r1")
    \/ tp_write("r1")
    \/ wh_receive("h1", GatewayEvent(1))
    \/ wh_find_payment("h1")
    \/ wh_update_payment("h1")
    \/ wh_update_ad("h1")
    \/ wh_notify("h1")

SpecCommute == InitCommute /\ [][NextCommute]_vars

\* Favorites: u2 adds the ad of u1 to their favorites and removes it, from
\* two sessions whose store calls interleave.
NextFavorites ==
    \/ create_ad("u1", "cars", "ad1")
    \/ \E r \in Requesters, a \in AdIds : fa_find_ad(r, "u2", a)
    \/ \E r \in Requesters : fa_find_existing(r)
    \/ \E r \in Requesters : fa_insert(r)
    \/ \E r \in Requesters : fa_inc(r)
    \/ \E r \in Requesters : fr_delete(r, "u2", "ad1")
    \/ \E r \in Requesters : fr_dec(r)

SpecFavorites == Init /\ [][NextFavorites]_vars

\* Views across the first milestone: ad1 of u1 has 98 views, and two
\* clients call GET /ads/ad1, up to MaxViews times each, their store calls
\* interleaving.
InitMilestone ==
    /\ now = StartTime
    /\ ads = ("ad1" :> [NewAd("u1", "cars", StartTime) EXCEPT !.views = 98])
    /\ payments = <<>>
    /\ reviews = <<>>
    /\ users = [u \in Users |-> NewUser]
    /\ resp = Response("get_ad", 200, 0)
    /\ wh = [h \in Handlers |-> IdleHandler]
    /\ tp = [r \in Requesters |-> IdleTopup]
    /\ listing = NoListing
    /\ cr = [r \in Requesters |-> IdleCreate]
    /\ vw = [r \in Requesters |-> IdleView]
    /\ mail = {}
    /\ favorites = NoFavorites
    /\ fq = [r \in Requesters |-> IdleFavorite]
    /\ am = [r \in Requesters |-> IdleModeration]

NextMilestone ==
    \/ Tick(TickSeconds)
    \/ \E r \in Requesters : vw[r].done < MaxViews /\ gv_find(r, "ad1")
    \/ \E r \in Requesters : gv_inc(r)
    \/ \E r \in Requesters : gv_return(r)

SpecMilestone == InitMilestone /\ [][NextMilestone]_vars

\* Promotions: the ad is published, moderated and promoted by a paid
\* webhook, the clock advances by minutes and by the seven days of a
\* promotion, and the home page asks for the promoted ads.
PromotedMaxTime == StartTime + PromoteSeconds + MaxTicks * TickSeconds

NextPromoted ==
    \/ Tick(TickSeconds)
    \/ TickUntil(PromoteSeconds, PromotedMaxTime)
    \/ \E c \in Categories : create_ad("u1", c, "ad1")
    \/ \E s \in {"active", "rejected"} :
          admin_update_ad_status("adm", "ad1", s)
    \/ \E e \in LifecycleEvents :
          /\ e.MerchantTrns.ad_id = "ad1"
          /\ e.MerchantTrns.payment_type = "promote"
          /\ payment_webhook(e)
    \/ get_promoted_ads(PromotedLimit)

SpecPromoted == Init /\ [][NextPromoted]_vars

\* Moderation next to the owner: the administrator's status updates run one
\* store call a step while the owners publish, edit and delete their ads
\* and the clock advances.
NextModeration ==
    \/ Tick(TickSeconds)
    \/ \E c \in Categories : create_ad("u1", c, "ad1")
    \/ \E r \in Requesters, a \in AdIds, st \in {"active", "rejected"} :
          am_find(r, "adm", a, st)
    \/ am_find("r1", "u1", "ad1", "active")
    \/ am_find("r1", "adm", "ad1", "sold")
    \/ \E r \in Requesters : am_notify(r)
    \/ \E r \in Requesters : am_write(r)
    \/ delete_ad("u1", "ad1")

SpecModeration == Init /\ [][NextModeration]_vars

TypeOK ==
    /\ now \in Nat /\ now >= StartTime
    /\ DOMAIN ads \subseteq AdIds
    /\ DOMAIN payments \subseteq OrderCodes
    /\ DOMAIN reviews \subseteq ReviewIds
    /\ DOMAIN users = Users

\* ============================================================== claims ====
\* the ad fields a paid effect writes
EffectFields(ad) ==
    <<ad.boost_expires_at, ad.promote_expires_at, ad.is_boosted,
      ad.is_promoted, ad.status>>

\* C1: a replayed delivery (the same successful event, started after an
\* earlier delivery of it was answered) leaves boost_expires_at,
\* promote_expires_at, is_boosted, is_promoted and status of every ad as
\* they were before it, whatever happened in between.
C1_ReplayLeavesAdUnchanged ==
    [][\A h \in Handlers :
        (wh[h].replay /\ wh'[h].pc # wh[h].pc)
        => /\ DOMAIN ads' = DOMAIN ads
           /\ \A a \in DOMAIN ads :
                EffectFields(ads'[a]) = EffectFields(ads[a])]_vars

\* C2: of two overlapping deliveries of the same successful event only one
\* writes the effect: the ad update of the handler that comes second
\* changes no effect field of any ad.
C2_ConcurrentEffectOnce ==
    [][\A h \in Handlers :
        (/\ wh[h].pc = "update_ad" /\ wh'[h].pc = "notify"
         /\ ~wh[h].replay
         /\ \E g \in Handlers \ {h} :
                /\ ~wh[g].replay
                /\ wh[g].ev = wh[h].ev
                /\ wh[g].pc \in {"notify", "done"})
        => \A a \in DOMAIN ads :
                EffectFields(ads'[a]) = EffectFields(ads[a])]_vars

\* C3: once a payment order is completed, no step changes its status, its
\* completed_at or its transaction_id.
C3_CompletedOnce ==
    [][\A c \in DOMAIN payments :
        payments[c].status = "completed"
        => /\ c \in DOMAIN payments'
           /\ payments'[c].status = "completed"
           /\ payments'[c].completed_at = payments[c].completed_at
           /\ payments'[c].transaction_id = payments[c].transaction_id]_vars

\* correlation data that is absent, null, not JSON, not an object, or an
\* object without ad_id / payment_type
MalformedTrns(mt) ==
    \/ mt.form # "object"
    \/ mt.ad_id = "none"
    \/ mt.payment_type = "none"

\* C4: a webhook whose correlation data is missing or malformed is answered
\* 200 "received" and changes no payment order and no ad, whatever its
\* status and order code.
C4_MalformedNoMutation ==
    [][resp'.op = "payment_webhook" =>
       \A e \in {x \in Events : MalformedTrns(x.MerchantTrns)} :
        payment_webhook(e)
        => /\ ads' = ads
           /\ payments' = payments
           /\ resp' = Response("payment_webhook", 200, 0)]_vars

\* C5: the first successful webhook of an order (the order is pending, the
\* event echoes its correlation data) completes the order and, handled at
\* time now, changes the ad exactly as its kind says: post_ad -> status
\* pending and is_paid; boost -> is_boosted and boost_expires_at = now + 24h;
\* promote -> is_promoted and promote_expires_at = now + 7 days.
C5_FirstWebhookEffect ==
    [][resp'.op = "payment_webhook" =>
       \A c \in DOMAIN payments, t \in TxnIds :
        LET p == payments[c]
            e == [OrderCode |-> c, StatusId |-> "F", TransactionId |-> t,
                  MerchantTrns |-> EchoTrns(p.ad_id, p.payment_type)]
        IN
        (p.status = "pending" /\ payment_webhook(e))
        => /\ payments'[c].status = "completed"
           /\ DOMAIN ads' = DOMAIN ads
           /\ \A a \in DOMAIN ads :
                ads'[a] =
                  IF a # p.ad_id THEN ads[a]
                  ELSE CASE p.payment_type = "post_ad" ->
                              [ads[a] EXCEPT !.status = "pending",
                                             !.is_paid = TRUE]
                         [] p.payment_type = "boost" ->
                              [ads[a] EXCEPT !.is_boosted = TRUE,
                                             !.boost_expires_at =
                                                 now + 24 * 3600]
                         [] p.payment_type = "promote" ->
                              [ads[a] EXCEPT !.is_promoted = TRUE,
                                             !.promote_expires_at =
                                                 now + 7 * 24 * 3600]]_vars

\* a boost order was completed and its ad carries the 24h boost written by
\* that reconciliation
C5_Witness ==
    \E c \in DOMAIN payments :
        /\ payments[c].status = "completed"
        /\ payments[c].payment_type = "boost"
        /\ payments[c].ad_id \in DOMAIN ads
        /\ ads[payments[c].ad_id].is_boosted
        /\ ads[payments[c].ad_id].boost_expires_at =
               payments[c].completed_at + 24 * 3600
        /\ resp = Response("payment_webhook", 200, 0)

\* C6: a webhook whose status is not "F" changes no payment order and no
\* ad and is answered 200 "received".
C6_NonSuccessIgnored ==
    [][resp'.op = "payment_webhook" =>
       \A e \in {x \in Events : x.StatusId # "F"} :
        payment_webhook(e)
        => /\ ads' = ads
           /\ payments' = payments
           /\ resp' = Response("payment_webhook", 200, 0)]_vars

\* C7: a CreateOrder that fails (bad kind: 400 before the gateway is
\* contacted; token exchange or order creation failing by a non-200
\* response, a timeout or a transport error: 502) leaves payments unchanged.
C7_CreateOrderFailure ==
    [][resp'.op = "create_payment_order" =>
       \A u \in Users, a \in AdIds, k \in PaymentKinds \cup {"bogus"},
         tk \in GatewayOutcomes, od \in GatewayOutcomes :
        (/\ (k \notin PaymentKinds \/ tk # "ok" \/ od # "ok")
         /\ create_payment_order(u, a, k, tk, od))
        => /\ payments' = payments
           /\ resp'.code = IF k \notin PaymentKinds THEN 400 ELSE 502]_vars

\* C8: a successful CreateOrder(buyer, ad_id, kind) inserts exactly one
\* payment order, pending, with the gateway's order code, the given ad and
\* buyer, and the price of the kind (post_ad 1140, boost 700, promote 2999);
\* every stored payment order has the price of its kind.
C8_CreateOrderInserts ==
    [][/\ payments' # payments =>
          \A c \in DOMAIN payments' :
            payments'[c].amount =
                CASE payments'[c].payment_type = "post_ad" -> 1140
                  [] payments'[c].payment_type = "boost" -> 700
                  [] payments'[c].payment_type = "promote" -> 2999
                  [] OTHER -> -1
       /\ resp' = Response("create_payment_order", 200, 0) =>
          \A u \in Users, a \in AdIds, k \in PaymentKinds :
            create_payment_order(u, a, k, "ok", "ok")
            => \E c \in OrderCodes \ DOMAIN payments :
                /\ DOMAIN payments' = DOMAIN payments \cup {c}
                /\ \A d \in DOMAIN payments : payments'[d] = payments[d]
                /\ payments'[c].order_code = c
                /\ payments'[c].status = "pending"
                /\ payments'[c].ad_id = a
                /\ payments'[c].user_id = u
                /\ payments'[c].payment_type = k]_vars

\* an order has just been created and is stored pending
C8_Witness ==
    /\ resp = Response("create_payment_order", 200, 0)
    /\ \E c \in DOMAIN payments :
        /\ payments[c].status = "pending"
        /\ payments[c].created_at = now
        /\ payments[c].payment_type = "promote"
        /\ payments[c].amount = 2999

\* C9: Publish stores the ad pending when its category is "escorts" and
\* active otherwise; an active ad gets topup_rank >= the publish time; every
\* published ad is paid, not boosted, not promoted, has no views and has
\* auto_topup on.
C9_PublishInitialState ==
    [][resp'.op = "create_ad" =>
       \A u \in Users, c \in Categories, a \in AdIds :
        create_ad(u, c, a)
        => /\ a \in DOMAIN ads'
           /\ ads'[a].status = IF c = "escorts" THEN "pending" ELSE "active"
           /\ (ads'[a].status = "active" => ads'[a].topup_rank >= now)
           /\ ads'[a].is_paid = TRUE
           /\ ads'[a].is_boosted = FALSE
           /\ ads'[a].is_promoted = FALSE
           /\ ads'[a].views = 0
           /\ ads'[a].auto_topup = TRUE]_vars

\* an ad of the moderated category has just been published
C9_Witness ==
    /\ resp = Response("create_ad", 200, 0)
    /\ \E a \in DOMAIN ads :
        /\ ads[a].category_id = "escorts"
        /\ ads[a].created_at = now
        /\ ads[a].status = "pending"

\* C10: every pending ad has topup_rank = 0.
C10_PendingRankZero ==
    \A a \in DOMAIN ads :
        ads[a].status = "pending" => ads[a].topup_rank = 0

\* C11: rejected and expired are terminal for everything but the
\* administrator's status update: a step of any other operation (content
\* update, topup, auto-topup toggle, view, payment webhook) leaves the
\* status of a rejected or expired ad as it was.
C11_TerminalStatuses ==
    [][resp'.op # "admin_update_ad_status" =>
       \A a \in DOMAIN ads :
          ads[a].status \in {"rejected", "expired"}
          => /\ a \in DOMAIN ads'
             /\ ads'[a].status = ads[a].status]_vars

\* C12: a manual topup succeeds (answers 200 and writes the ad) exactly
\* when the ad exists, the caller owns it, it is active, and last_topup is
\* null or at least the caller's cooldown (40 minutes with a referral, 60
\* without) lies between last_topup and now.
C12_TopupSucceedsIff ==
    [][resp'.op = "topup_ad" =>
       \A u \in Users, a \in AdIds :
          topup_ad(u, a)
          => LET allowed ==
                   /\ a \in DOMAIN ads
                   /\ ads[a].user_id = u
                   /\ ads[a].status = "active"
                   /\ \/ ads[a].last_topup = None
                      \/ now - ads[a].last_topup >=
                           (IF ReferralCount(u) >= 1 THEN 40 ELSE 60) * 60
             IN /\ resp'.code = 200 <=> allowed
                /\ ads' # ads <=> allowed]_vars

\* a topup that succeeded on an ad never topped up before, at the very
\* instant the ad was published (pending) and approved
C12_Witness ==
    /\ resp = Response("topup_ad", 200, 0)
    /\ "ad1" \in DOMAIN ads
    /\ ads["ad1"].category_id = "escorts"
    /\ ads["ad1"].created_at = now
    /\ ads["ad1"].last_topup = now

\* C13: a topup inside the cooldown is refused with the remaining whole
\* minutes r, the integer part of cooldown - elapsed (so 0 <= r <=
\* cooldown), and writes nothing; a topup refused because the caller is
\* not the owner or the ad is not active writes nothing either.
C13_EarlyTopupRefused ==
    [][resp'.op = "topup_ad" =>
       \A u \in Users, a \in DOMAIN ads :
          topup_ad(u, a)
          => LET cooldown == IF ReferralCount(u) >= 1 THEN 40 ELSE 60
                 left == cooldown * 60 - (now - ads[a].last_topup)
             IN /\ ( /\ ads[a].user_id = u
                     /\ ads[a].status = "active"
                     /\ ads[a].last_topup # None
                     /\ left > 0 )
                   => /\ resp'.code = 400
                      /\ resp'.detail \in 0..cooldown
                      /\ resp'.detail * 60 <= left
                      /\ left < (resp'.detail + 1) * 60
                      /\ ads' = ads
                /\ (ads[a].user_id # u \/ ads[a].status # "active")
                   => /\ resp'.code \in {400, 403}
                      /\ ads' = ads]_vars

\* the referral owner refused 20.5 minutes after the last topup: 19.5
\* minutes remain and 19 is reported
C13_Witness ==
    /\ resp = Response("topup_ad", 400, 19)
    /\ "ad1" \in DOMAIN ads
    /\ ads["ad1"].user_id = "u2"
    /\ ads["ad1"].status = "active"
    /\ now - ads["ad1"].last_topup = 1230

\* C14: the owner's topup right after a successful topup, with the clock
\* where it was, is refused; the owner's topup once the cooldown has
\* elapsed succeeds, sets last_topup and topup_rank to now, and the new
\* topup_rank is greater than the one before the call.
C14_TopupAfterTopup ==
    [][resp'.op = "topup_ad" =>
       \A u \in Users, a \in DOMAIN ads :
          ( /\ topup_ad(u, a)
            /\ ads[a].user_id = u
            /\ ads[a].status = "active"
            /\ ads[a].last_topup # None )
          => /\ (resp = Response("topup_ad", 200, 0)
                 /\ ads[a].last_topup = now)
                => resp'.code # 200 /\ ads' = ads
             /\ now - ads[a].last_topup >=
                   (IF ReferralCount(u) >= 1 THEN 40 ELSE 60) * 60
                => /\ resp'.code = 200
                   /\ ads'[a].last_topup = now
                   /\ ads'[a].topup_rank = now
                   /\ ads'[a].topup_rank > ads[a].topup_rank]_vars

\* a second topup that succeeded: the ad started with last_topup set, and
\* a topup moved it to now, a full cooldown later
C14_Witness ==
    /\ resp = Response("topup_ad", 200, 0)
    /\ "ad1" \in DOMAIN ads
    /\ ads["ad1"].category_id = "cars"
    /\ ads["ad1"].last_topup = now
    /\ ads["ad1"].topup_rank = now
    /\ now >= ads["ad1"].created_at + 2400

\* C15: the stored topup_rank of an ad never decreases, whatever the
\* operations and however the store calls of concurrent topups interleave.
C15_RankMonotonic ==
    [][\A a \in DOMAIN ads :
        /\ a \in DOMAIN ads'
        /\ ads'[a].topup_rank >= ads[a].topup_rank]_vars

\* the ads of the last listing, in the order returned
Listed(i) == ads[listing.ids[i]]

\* x may come before y under the keys of the boosted mode: is_boosted
\* desc, boost_expires_at desc, created_at desc
BoostedOrder(x, y) ==
    \/ x.is_boosted /\ ~y.is_boosted
    \/ /\ x.is_boosted = y.is_boosted
       /\ \/ x.boost_expires_at > y.boost_expires_at
          \/ /\ x.boost_expires_at = y.boost_expires_at
             /\ x.created_at >= y.created_at

\* x may come before y under the secondary keys of a mode
ModeOrder(sort, x, y) ==
    CASE sort = "price_low" -> x.price <= y.price
      [] sort = "price_high" -> x.price >= y.price
      [] sort = "boosted" -> BoostedOrder(x, y)
      [] OTHER -> x.created_at >= y.created_at

\* C16 as stated: in every mode but oldest, under every category filter,
\* a listed ad never has a smaller topup_rank than an ad listed after it,
\* and ads of equal topup_rank are in the order of the mode's secondary
\* keys.
C16_RankThenModeKeys ==
    (listing.sort \notin {"none", "oldest"})
    => \A i, j \in DOMAIN listing.ids :
          i < j
          => /\ Listed(i).topup_rank >= Listed(j).topup_rank
             /\ Listed(i).topup_rank = Listed(j).topup_rank
                => ModeOrder(listing.sort, Listed(i), Listed(j))

\* C16 amended: in every mode but oldest, under every category filter,
\* topup_rank descending is the primary key; ads of equal topup_rank are
\* in the order of the mode's secondary keys, except under the escorts
\* filter, where is_boosted descending is applied ahead of them.
C16_RankThenFoldedKeys ==
    (listing.sort \notin {"none", "oldest"})
    => \A i, j \in DOMAIN listing.ids :
          i < j
          => /\ Listed(i).topup_rank >= Listed(j).topup_rank
             /\ Listed(i).topup_rank = Listed(j).topup_rank
                => IF listing.category_id = "escorts"
                   THEN \/ Listed(i).is_boosted /\ ~Listed(j).is_boosted
                        \/ /\ Listed(i).is_boosted = Listed(j).is_boosted
                           /\ ModeOrder(listing.sort, Listed(i), Listed(j))
                   ELSE ModeOrder(listing.sort, Listed(i), Listed(j))

\* two escorts ads of equal topup_rank listed newest-first under the
\* escorts filter: the boosted one first although it is the older one
C16_Witness ==
    /\ listing.category_id = "escorts"
    /\ listing.sort = "newest"
    /\ Len(listing.ids) = 2
    /\ Listed(1).topup_rank = Listed(2).topup_rank
    /\ Listed(1).is_boosted /\ ~Listed(2).is_boosted
    /\ Listed(1).created_at < Listed(2).created_at

\* C17 as stated: in mode oldest the ads are listed by created_at
\* ascending, whatever their topup_rank and boost state, under every
\* category filter.
C17_OldestByCreation ==
    listing.sort = "oldest"
    => \A i, j \in DOMAIN listing.ids :
          i < j => Listed(i).created_at <= Listed(j).created_at

\* C18: a listing query returns exactly the stored ads that are active at
\* query time and match the category filter: never a pending, rejected or
\* expired ad, and always an ad the administrator has set to active.
C18_ListsOnlyActive ==
    [][(resp'.op = "get_ads"
        /\ get_ads(listing'.category_id, listing'.sort)) =>
       LET c == listing'.category_id IN
       /\ \A i \in DOMAIN listing'.ids :
            /\ listing'.ids[i] \in DOMAIN ads
            /\ ads[listing'.ids[i]].status = "active"
       /\ \A a \in DOMAIN ads :
            ( /\ ads[a].status = "active"
              /\ c = NoFilter \/ ads[a].category_id = c )
            => \E i \in DOMAIN listing'.ids : listing'.ids[i] = a]_vars

\* an escorts ad, published pending, is listed once the administrator has
\* set it to active
C18_Witness ==
    /\ resp = Response("get_ads", 200, 0)
    /\ ads["ad1"].category_id = "escorts"
    /\ ads["ad1"].status = "active"
    /\ ads["ad1"].updated_at > ads["ad1"].created_at
    /\ \E i \in DOMAIN listing.ids : listing.ids[i] = "ad1"

\* the sellers whose set of reviews a step changes
Reviewed(seller_id) ==
    \/ ReviewsOf(reviews, seller_id) # ReviewsOf(reviews', seller_id)
    \/ \E id \in ReviewsOf(reviews, seller_id) : reviews'[id] # reviews[id]

\* C19: after a review creation or deletion that completes, the seller's
\* total_reviews is the number of reviews naming the seller and avg_rating
\* (in tenths) is within half a tenth of their mean.
C19_ReputationMatchesReviews ==
    [][(resp'.op \in {"create_review", "delete_review"} /\ resp'.code = 200)
       => \A sl \in Users :
            Reviewed(sl)
            => LET ids == ReviewsOf(reviews', sl)
                   n == Cardinality(ids)
                   total == SumRatings(reviews', ids)
               IN /\ users'[sl].total_reviews = n
                  /\ n > 0
                     => /\ 2 * (10 * total - users'[sl].avg_rating * n) <= n
                        /\ 2 * (users'[sl].avg_rating * n - 10 * total) <= n
      ]_vars

\* C20: a deletion that leaves the seller without reviews completes and
\* leaves total_reviews = 0 and avg_rating = 0.
C20_ZeroAfterLastDelete ==
    [][(resp'.op = "delete_review" /\ resp'.code = 200)
       => \A sl \in Users :
            (Reviewed(sl) /\ ReviewsOf(reviews', sl) = {})
            => /\ users'[sl].total_reviews = 0
               /\ users'[sl].avg_rating = 0]_vars

\* C21: there is at most one review per (reviewer, seller, ad) triple,
\* also when create-review requests of one reviewer interleave.
C21_OneReviewPerTriple ==
    \A i, j \in DOMAIN reviews :
       ( /\ reviews[i].reviewer_id = reviews[j].reviewer_id
         /\ reviews[i].seller_id = reviews[j].seller_id
         /\ reviews[i].ad_id = reviews[j].ad_id )
       => i = j

\* C22: a create-review request whose reviewer is the seller, or whose
\* rating is outside 1..5, is refused, inserts no review and leaves every
\* stored reputation as it was; every stored review has a reviewer other
\* than its seller and a rating in 1..5.
C22_ValidationRejects ==
    [][/\ resp'.op = "create_review" =>
          \A u \in {"u1", "adm"}, sl \in {"u2", "u1", UnknownUser},
             a \in {"none", "ad1"}, rt \in {0, 3, 4, 5, 6},
             id \in ReviewIds :
             ( /\ sl = u \/ rt < 1 \/ rt > 5
               /\ create_review(u, sl, a, rt, id) )
             => /\ resp'.code = 400
                /\ reviews' = reviews
                /\ users' = users
       /\ \A id \in DOMAIN reviews' :
             /\ reviews'[id].reviewer_id # reviews'[id].seller_id
             /\ reviews'[id].rating \in 1..5]_vars

\* a request refused by validation: no review is stored, so the 400 is not
\* the duplicate test's, and no reputation was written
C22_Witness ==
    /\ resp = Response("create_review", 400, 0)
    /\ reviews = <<>>
    /\ \A u \in Users : users[u] = NewUser

\* C23: a status update by a non-administrator, or to a value outside the
\* four statuses, fails (403, 400), changes no ad and creates no e-mail
\* task; a valid call leaves the ad with the requested status; every
\* stored ad has one of the four statuses.
C23_ModerationGuarded ==
    [][/\ resp'.op = "admin_update_ad_status" =>
          \A u \in {"u1", "adm"}, a \in AdIds,
             st \in {"pending", "active", "rejected", "expired", "bogus"} :
             admin_update_ad_status(u, a, st)
             => IF u # "adm"
                THEN resp'.code = 403 /\ ads' = ads /\ mail' = {}
                ELSE IF st = "bogus"
                THEN resp'.code = 400 /\ ads' = ads /\ mail' = {}
                ELSE a \in DOMAIN ads
                     => a \in DOMAIN ads' /\ ads'[a].status = st
       /\ \A a \in DOMAIN ads' :
             ads'[a].status \in {"pending", "active", "rejected", "expired"}
      ]_vars

\* the administrator has set an ad to expired, a status no other operation
\* writes
C23_Witness ==
    /\ resp = Response("admin_update_ad_status", 200, 0)
    /\ "ad1" \in DOMAIN ads
    /\ ads["ad1"].status = "expired"

\* C24: an operation addressed to an ad id of no stored ad (never
\* created, or deleted) answers not-found: view, content update, delete,
\* topup, auto-topup toggle and the administrator's status update.
C24_UnknownAdNotFound ==
    [][\A a \in AdIds \ DOMAIN ads :
        ( \/ resp'.op = "get_ad" /\ get_ad(a)
          \/ /\ resp'.op = "update_ad"
             /\ \E u \in Users :
                   update_ad(u, a, [price |-> 10, status |-> "absent"])
          \/ resp'.op = "delete_ad" /\ \E u \in Users : delete_ad(u, a)
          \/ resp'.op = "topup_ad" /\ \E u \in Users : topup_ad(u, a)
          \/ /\ resp'.op = "toggle_auto_topup"
             /\ \E u \in Users : toggle_auto_topup(u, a, FALSE)
          \/ /\ resp'.op = "admin_update_ad_status"
             /\ \E st \in {"pending", "active", "rejected", "expired"} :
                   admin_update_ad_status("adm", a, st) )
        => resp'.code = 404]_vars

\* C27: deleting an ad succeeds for its owner and for an administrator
\* only (anyone else gets 403 and the ad stays); it removes that ad alone
\* and leaves the other ads, the reviews, the reputations and the payment
\* orders as they were; topup, webhook, status update and view never add
\* an ad to the store.
C27_DeleteRemovesOnlyTheAd ==
    [][/\ resp'.op = "delete_ad" =>
          \A u \in Users, a \in DOMAIN ads :
             delete_ad(u, a)
             => IF ads[a].user_id = u \/ u = "adm"
                THEN /\ resp'.code = 200
                     /\ DOMAIN ads' = DOMAIN ads \ {a}
                     /\ \A b \in DOMAIN ads' : ads'[b] = ads[b]
                     /\ reviews' = reviews
                     /\ users' = users
                     /\ payments' = payments
                ELSE resp'.code = 403 /\ ads' = ads
       /\ resp'.op \in {"topup_ad", "payment_webhook",
                        "admin_update_ad_status", "get_ad"}
          => DOMAIN ads' \subseteq DOMAIN ads]_vars

\* ad1 was deleted, its review and its order are still stored, and the
\* webhook of the order, handled afterwards, has not brought ad1 back
C27_Witness ==
    /\ resp = Response("payment_webhook", 200, 0)
    /\ "ad1" \notin DOMAIN ads
    /\ "ad2" \in DOMAIN ads
    /\ "rv1" \in DOMAIN reviews /\ reviews["rv1"].ad_id = "ad1"
    /\ 1 \in DOMAIN payments /\ payments[1].status = "completed"

\* the ad effect of a payment kind is in place
EffectApplied(ad, kind) ==
    CASE kind = "post_ad" -> ad.is_paid
      [] kind = "boost" -> ad.is_boosted /\ ad.boost_expires_at # None
      [] kind = "promote" -> ad.is_promoted /\ ad.promote_expires_at # None

\* C30: once a webhook has been handled, the payment order it names is
\* completed exactly when the effect of the order's kind is in place on
\* the order's ad: never a completed order whose ad lacks the effect (or
\* is gone), never the effect with the order still pending.
C30_WebhookAllOrNothing ==
    \A c \in DOMAIN payments :
       LET p == payments[c] IN
       /\ p.status = "completed"
          => /\ p.ad_id \in DOMAIN ads
             /\ EffectApplied(ads[p.ad_id], p.payment_type)
       /\ (p.status = "pending" /\ p.ad_id \in DOMAIN ads
           /\ p.payment_type # "post_ad")
          => ~EffectApplied(ads[p.ad_id], p.payment_type)

\* the fields of an ad that are not content and not updated_at
ProtectedFields(ad) ==
    <<ad.status, ad.is_paid, ad.is_boosted, ad.boost_expires_at,
      ad.is_promoted, ad.promote_expires_at, ad.topup_rank, ad.last_topup,
      ad.auto_topup, ad.views, ad.user_id, ad.created_at, ad.category_id>>

\* C25: a content update by anyone but the owner or an administrator is
\* refused and writes nothing; an accepted one, whatever keys its body
\* has, leaves status, is_paid, the boost and promotion fields, topup_rank,
\* last_topup, auto_topup, views, the owner and created_at as they were.
C25_UpdateContentFrame ==
    [][resp'.op = "update_ad" =>
       \A u \in Users, a \in DOMAIN ads, b \in OwnerBodies :
          update_ad(u, a, b)
          => IF ads[a].user_id = u \/ u = "adm"
             THEN /\ resp'.code = 200
                  /\ DOMAIN ads' = DOMAIN ads
                  /\ ProtectedFields(ads'[a]) = ProtectedFields(ads[a])
                  /\ \A o \in DOMAIN ads \ {a} : ads'[o] = ads[o]
             ELSE resp'.code = 403 /\ ads' = ads]_vars

\* a rejected ad whose price was just updated: it is still rejected
C25_Witness ==
    /\ resp = Response("update_ad", 200, 0)
    /\ "ad1" \in DOMAIN ads
    /\ ads["ad1"].price = 10
    /\ ads["ad1"].status = "rejected"
    /\ ads["ad1"].updated_at = now
    /\ ads["ad1"].created_at < now

\* the fields of an ad other than the view counter and updated_at
MutableFields(ad) ==
    <<ad.status, ad.is_paid, ad.is_boosted, ad.boost_expires_at,
      ad.is_promoted, ad.promote_expires_at, ad.topup_rank, ad.last_topup,
      ad.auto_topup, ad.price>>

\* C26: a step that changes a field of a stored ad other than the view
\* counter also sets updated_at to the time of the change.
C26_UpdatedAtRefreshed ==
    [][\A a \in DOMAIN ads \cap DOMAIN ads' :
        MutableFields(ads'[a]) # MutableFields(ads[a])
        => ads'[a].updated_at = now]_vars

\* the calls of a set of clients that have incremented the counter: the
\* completed ones and those past their increment
RECURSIVE ViewsRecorded(_, _)
ViewsRecorded(v, clients) ==
    IF clients = {} THEN 0
    ELSE LET r == CHOOSE x \in clients : TRUE
         IN v[r].done + (IF v[r].pc = "return" THEN 1 ELSE 0)
            + ViewsRecorded(v, clients \ {r})

\* C28: views never decreases, and it counts the calls: after every step
\* the views of the ad are the number of GET calls that have performed
\* their increment, however the calls overlap.
C28_ViewsCountCalls ==
    [][/\ \A a \in DOMAIN ads :
             a \in DOMAIN ads' /\ ads'[a].views >= ads[a].views
       /\ "ad1" \in DOMAIN ads'
          => ads'["ad1"].views = ViewsRecorded(vw', Requesters)]_vars

\* two overlapping calls: both read views = 0 before either incremented,
\* both have incremented, and the counter is 2
C28_Witness ==
    /\ "ad1" \in DOMAIN ads
    /\ \A r \in Requesters :
          vw[r].pc = "return" /\ vw[r].old_views = 0 /\ vw[r].done = 0
    /\ ads["ad1"].views = 2

\* C29: the notification never affects the operation that triggered it.  A
\* step in which an e-mail task ends, sent, skipped or failed, leaves the
\* response and the stored documents as they are, and a step that answers
\* a request or writes to the store leaves every task it created pending:
\* the handler returns without waiting for the e-mail.
C29_DispatchDetached ==
    [][/\ (\E m \in mail' \ mail : m.status # "pending")
          => UNCHANGED <<resp, ads, payments, reviews, users>>
       /\ (resp' # resp \/ ads' # ads \/ payments' # payments)
          => \A m \in mail' : m.status = "pending"]_vars

\* the new-ad e-mail to the administrator has failed; the publication
\* stands: the answer is 200 and the ad is stored
C29_Witness ==
    /\ [to |-> AdminMailbox, template |-> "admin_new_ad",
        status |-> "failed"] \in mail
    /\ resp = Response("create_ad", 200, 0)
    /\ "ad2" \in DOMAIN ads

\* the document the ad of SpecCommute started as: neither request writes
\* the owner or the category
CommuteStart ==
    CHOOSE d \in CommuteDocs :
        /\ d.user_id = ads["ad1"].user_id
        /\ d.category_id = ads["ad1"].category_id

\* the values the clock takes under SpecCommute
CommuteTimes == {t \in StartTime..TopupMaxTime : (t - StartTime) % TickSeconds = 0}

\* the store is what the topup at t1 and the webhook at t2 leave when run
\* one after the other, in either order, from the starting document
SequentialEitherOrder(t1, t2) ==
    LET start == "ad1" :> CommuteStart
        owner == CommuteStart.user_id
        kind == payments[1].payment_type
    IN
    /\ ads = ApplyEffect(ApplyTopup(start, owner, "ad1", t1), "ad1", kind, t2)
    /\ ads = ApplyTopup(ApplyEffect(start, "ad1", kind, t2), owner, "ad1", t1)

\* both requests have ended
CommuteDone == tp["r1"].pc = "done" /\ wh["h1"].pc = "done"

\* C31 as stated: for every interleaving of one topup and one successful
\* webhook of any kind on the same ad, the final ad is the one both
\* sequential orders give, each request with the time it sampled.
C31_TopupWebhookCommute ==
    CommuteDone
    => \E t1, t2 \in CommuteTimes :
          /\ tp["r1"].t # None => t1 = tp["r1"].t
          /\ SequentialEitherOrder(t1, t2)

\* C31 amended: the same for the webhook of a boost or promote order; the
\* post_ad webhook writes status, which the topup reads.
C31_BoostPromoteCommute ==
    (CommuteDone /\ payments[1].payment_type \in {"boost", "promote"})
    => \E t1, t2 \in CommuteTimes :
          /\ tp["r1"].t # None => t1 = tp["r1"].t
          /\ SequentialEitherOrder(t1, t2)

\* a topup that succeeded and a boost webhook, sampled at different times,
\* have both ended and both effects are in the ad
C31_Witness ==
    /\ CommuteDone
    /\ tp["r1"].code = 200
    /\ ads["ad1"].last_topup = tp["r1"].t
    /\ ads["ad1"].is_boosted
    /\ ads["ad1"].boost_expires_at # tp["r1"].t + BoostSeconds

\* C32: favorites_count of every ad is non-negative in every reachable
\* state, however the store calls of add-favorite and remove-favorite
\* requests interleave.
C32_FavoritesCountNonNegative ==
    \A a \in DOMAIN ads : ads[a].favorites_count >= 0

\* C33: any two manual topups of an ad that succeeded, concurrent or not,
\* sampled times at least the owner's cooldown apart.
C33_CooldownGlobal ==
    \A r, q \in Requesters :
        ( /\ r # q
          /\ tp[r].code = 200 /\ tp[q].code = 200
          /\ tp[r].ad_id = tp[q].ad_id
          /\ tp[r].t <= tp[q].t )
        => tp[q].t - tp[r].t >= CooldownMinutes(tp[q].user) * 60

\* C34: a successful webhook changes an ad only on the authority of the
\* local order it names: the order exists, refers to the ad and the kind
\* the event echoes, and is completed; a webhook whose order code is
\* unknown, or whose echoed ad or kind differ from the order, changes no ad.
C34_EffectNeedsMatchingOrder ==
    [][resp'.op = "payment_webhook" =>
       \A e \in {x \in Events : x.StatusId = "F"} :
        (payment_webhook(e) /\ ads' # ads)
        => LET trns == ParseTrns(e.MerchantTrns) IN
           /\ e.OrderCode \in DOMAIN payments'
           /\ payments'[e.OrderCode].status = "completed"
           /\ payments'[e.OrderCode].ad_id = trns.ad_id
           /\ payments'[e.OrderCode].payment_type = trns.payment_type]_vars

\* C35: once no review request is in flight, the stored avg_rating and
\* total_reviews of every seller who has reviews are the aggregate over the
\* reviews that exist.
C35_SettledAggregate ==
    (\A r \in Requesters : cr[r].pc \in {"idle", "done"})
    => \A s \in DOMAIN users :
          LET ids == ReviewsOf(reviews, s) IN
          ids # {}
          => /\ users[s].total_reviews = Cardinality(ids)
             /\ users[s].avg_rating =
                   RoundTenths(SumRatings(reviews, ids), Cardinality(ids))

\* C36: every active ad has topup_rank >= its creation time, whether it
\* was published active or approved from pending.
C36_ActiveAdRanked ==
    \A a \in DOMAIN ads :
        ads[a].status = "active" => ads[a].topup_rank >= ads[a].created_at

\* C37: last_topup is written by successful manual topups only: it is null
\* when the ad is published, and every step that changes it is a topup
\* answered 200.
C37_LastTopupManualOnly ==
    [][\A a \in DOMAIN ads' :
        LET before == IF a \in DOMAIN ads THEN ads[a].last_topup ELSE None
        IN ads'[a].last_topup # before
           => resp' = Response("topup_ad", 200, 0)]_vars

\* the milestone notifications a set of clients' calls have dispatched
RECURSIVE MilestonesSent(_, _)
MilestonesSent(v, clients) ==
    IF clients = {} THEN 0
    ELSE LET r == CHOOSE x \in clients : TRUE
         IN v[r].sent + MilestonesSent(v, clients \ {r})

C39_PromotedNotExpired ==
    [][get_promoted_ads(PromotedLimit) =>
       \A i \in DOMAIN listing'.ids :
          LET ad == ads[listing'.ids[i]] IN
          /\ ad.status = "active"
          /\ ad.is_promoted
          /\ ad.promote_expires_at > now]_vars

\* C40: the moderation e-mail follows the mutation: at the step in which a
\* status update issues an ad_approved or ad_rejected e-mail, the ad is
\* stored with the status notified (active or rejected).
C40_NotifyAfterWrite ==
    [][\A r \in Requesters :
        (am'[r].issued # am[r].issued /\ am'[r].issued # "none")
        => /\ am'[r].ad_id \in DOMAIN ads'
           /\ ads'[am'[r].ad_id].status =
                 (IF am'[r].issued = "ad_approved" THEN "active"
                  ELSE "rejected")]_vars

====
